---- MODULE Spec2Model ----
(***************************************************************************)
(* Model of the framework-consultant backend:                              *)
(*   - services/scoring_peer.py  (weighted capability scorer)              *)
(*   - app_agents/scoring_agent.py (run_scoring)                           *)
(*   - api.py / services/scoring.py (six-dimension matrix rankers,         *)
(*     /use-cases and /agent orchestration)                                *)
(*                                                                         *)
(* Numbers.  Python floats are modelled by exact scaled integers:          *)
(*   capability values and peer weights are in 1/100 (0.95 -> 95),         *)
(*   raw peer scores are in 1/10000 (baseline 0.05 -> 500),                *)
(*   a normalised score is the exact fraction [n, d] (d > 0).              *)
(* What exact arithmetic cannot express - that an IEEE sum depends on the  *)
(* order of its terms - is kept as an explicit unknown: see fpTable.       *)
(*                                                                         *)
(* Python None is the string None below.                                   *)
(***************************************************************************)
EXTENDS Integers, Sequences, FiniteSets, TLC

None == "<None>"

-----------------------------------------------------------------------------
(* Strings: str.lower(), str.strip(), `k in text`, and the order of        *)
(* sorted() on str (code points).                                          *)

UpperAlpha == "ABCDEFGHIJKLMNOPQRSTUVWXYZ"
LowerAlpha == "abcdefghijklmnopqrstuvwxyz"
\* code-point order of the characters that occur in the model's strings
CodePoints == " -0123456789ABCDEFGHIJKLMNOPQRSTUVWXYZ_abcdefghijklmnopqrstuvwxyz"

CharAt(s, i) == SubSeq(s, i, i)

IndexIn(alpha, c) ==
    IF \E i \in 1..Len(alpha) : CharAt(alpha, i) = c
    THEN CHOOSE i \in 1..Len(alpha) : CharAt(alpha, i) = c
    ELSE 0

LowerOf == [c \in {CharAt(UpperAlpha, i) : i \in 1..Len(UpperAlpha)} |->
                CharAt(LowerAlpha, IndexIn(UpperAlpha, c))]

LowerChar(c) == IF c \in DOMAIN LowerOf THEN LowerOf[c] ELSE c

RECURSIVE Lower(_)
Lower(s) ==
    IF Len(s) = 0 THEN ""
    ELSE IF Len(s) = 1 THEN LowerChar(s)
    ELSE Lower(SubSeq(s, 1, Len(s) \div 2)) \o Lower(SubSeq(s, Len(s) \div 2 + 1, Len(s)))

RECURSIVE Strip(_)
Strip(s) ==
    IF Len(s) = 0 THEN ""
    ELSE IF CharAt(s, 1) = " " THEN Strip(SubSeq(s, 2, Len(s)))
    ELSE IF CharAt(s, Len(s)) = " " THEN Strip(SubSeq(s, 1, Len(s) - 1))
    ELSE s

\* Python `k in t` for strings
Contains(t, k) == \E i \in 1..(Len(t) - Len(k) + 1) : SubSeq(t, i, i + Len(k) - 1) = k

ContainsAny(t, kws) == \E k \in kws : Contains(t, k)

RECURSIVE StrLess(_, _)
StrLess(a, b) ==
    IF Len(b) = 0 THEN FALSE
    ELSE IF Len(a) = 0 THEN TRUE
    ELSE LET ca == IndexIn(CodePoints, CharAt(a, 1))
             cb == IndexIn(CodePoints, CharAt(b, 1))
         IN  IF ca # cb THEN ca < cb
             ELSE StrLess(SubSeq(a, 2, Len(a)), SubSeq(b, 2, Len(b)))

\* sorted(S) for a set of strings
RECURSIVE SortedStrings(_)
SortedStrings(S) ==
    IF S = {} THEN <<>>
    ELSE LET m == CHOOSE x \in S : \A y \in S \ {x} : StrLess(x, y)
         IN  <<m>> \o SortedStrings(S \ {m})

Range(s) == {s[i] : i \in 1..Len(s)}

-----------------------------------------------------------------------------
(* services/scoring_peer.py: tables                                        *)

ALLOWED_FRAMEWORKS ==
    {"Google ADK", "LangChain", "LangGraph", "OpenAI Agents SDK",
     "Claude Agent SDK", "Cognigy", "n8n", "CrewAI"}

FRAMEWORKS == SortedStrings(ALLOWED_FRAMEWORKS)

CapRow(rag, tools, workflow, multi_agent, enterprise, low_code, ecosystem, observability, privacy_onprem, ease_beginner) ==
    [k \in {"rag", "tools", "workflow", "multi_agent", "enterprise", "low_code",
            "ecosystem", "observability", "privacy_onprem", "ease_beginner"} |->
        CASE k = "rag" -> rag
          [] k = "tools" -> tools
          [] k = "workflow" -> workflow
          [] k = "multi_agent" -> multi_agent
          [] k = "enterprise" -> enterprise
          [] k = "low_code" -> low_code
          [] k = "ecosystem" -> ecosystem
          [] k = "observability" -> observability
          [] k = "privacy_onprem" -> privacy_onprem
          [] k = "ease_beginner" -> ease_beginner]

\* CAP as written in the source (values in 1/100)
CapTable ==
    [fw \in ALLOWED_FRAMEWORKS |->
        CASE fw = "LangChain"         -> CapRow(95, 85, 55, 55, 70, 20, 95, 65, 60, 75)
          [] fw = "LangGraph"         -> CapRow(75, 80, 75, 90, 70, 15, 70, 70, 65, 40)
          [] fw = "Google ADK"        -> CapRow(60, 75, 70, 65, 80, 25, 65, 75, 70, 65)
          [] fw = "n8n"               -> CapRow(30, 65, 95, 25, 70, 90, 70, 55, 75, 80)
          [] fw = "CrewAI"            -> CapRow(50, 65, 55, 85, 55, 15, 55, 50, 55, 45)
          [] fw = "OpenAI Agents SDK" -> CapRow(60, 75, 70, 75, 70, 10, 70, 60, 45, 65)
          [] fw = "Claude Agent SDK"  -> CapRow(60, 70, 60, 65, 65, 10, 60, 55, 50, 65)
          [] fw = "Cognigy"           -> CapRow(45, 85, 75, 35, 85, 85, 70, 75, 60, 80)]

\* a weight vector is a sequence of <<key, weight>> pairs, in dict order
WeightsTable ==
    [k \in {"agent_type:chat_support", "agent_type:data_document", "agent_type:workflow",
            "agent_type:research_analysis", "agent_type:multi_agent",
            "derived:rag_required", "derived:automation_high", "derived:multi_agent",
            "skill:beginner", "skill:expert",
            "prio:Integration", "prio:RAG", "prio:Multi-Agent", "prio:Datenschutz",
            "prio:Speed", "prio:Memory"} |->
        CASE k = "agent_type:chat_support" ->
                <<<<"enterprise", 20>>, <<"low_code", 15>>, <<"tools", 15>>,
                  <<"ease_beginner", 20>>, <<"observability", 10>>>>
          [] k = "agent_type:data_document" ->
                <<<<"rag", 35>>, <<"tools", 15>>, <<"observability", 10>>, <<"enterprise", 10>>>>
          [] k = "agent_type:workflow" ->
                <<<<"workflow", 40>>, <<"low_code", 20>>, <<"tools", 10>>, <<"enterprise", 10>>>>
          [] k = "agent_type:research_analysis" ->
                <<<<"tools", 20>>, <<"ecosystem", 20>>, <<"observability", 10>>, <<"multi_agent", 10>>>>
          [] k = "agent_type:multi_agent" ->
                <<<<"multi_agent", 45>>, <<"workflow", 10>>, <<"tools", 10>>, <<"observability", 10>>>>
          [] k = "derived:rag_required" -> <<<<"rag", 35>>, <<"tools", 10>>>>
          [] k = "derived:automation_high" -> <<<<"workflow", 30>>, <<"low_code", 15>>>>
          [] k = "derived:multi_agent" -> <<<<"multi_agent", 25>>>>
          [] k = "skill:beginner" -> <<<<"ease_beginner", 25>>, <<"low_code", 10>>>>
          [] k = "skill:expert" ->
                <<<<"multi_agent", 10>>, <<"workflow", 10>>, <<"observability", 10>>>>
          [] k = "prio:Integration" -> <<<<"workflow", 15>>, <<"tools", 10>>, <<"ecosystem", 10>>>>
          [] k = "prio:RAG" -> <<<<"rag", 20>>>>
          [] k = "prio:Multi-Agent" -> <<<<"multi_agent", 20>>>>
          [] k = "prio:Datenschutz" -> <<<<"privacy_onprem", 20>>, <<"enterprise", 10>>>>
          [] k = "prio:Speed" -> <<<<"low_code", 10>>, <<"workflow", 10>>, <<"tools", 5>>>>
          [] k = "prio:Memory" -> <<<<"rag", 10>>, <<"observability", 5>>>>]

BASELINE == 500

-----------------------------------------------------------------------------
VARIABLES
    CAP,          \* scoring_peer.CAP (module-level dict)
    WEIGHTS,      \* scoring_peer.WEIGHTS (module-level dict)
    PRIORITY_WEIGHTS_BY_KEY,   \* api.PRIORITY_WEIGHTS_BY_KEY (module-level dict)
    AGENT_TYPE_MULTIPLIERS,    \* api.AGENT_TYPE_MULTIPLIERS
    SKILL_MULTIPLIERS,         \* api.SKILL_MULTIPLIERS
    hashSeed,     \* this process's str hash seed: the slots of the hash table of
                  \* set(priorities), in the order the iteration visits them
    fpTable,      \* IEEE rounding as the last call observed it: {<<active list, order of
                  \* the frameworks>>}; a call with the same active list repeats it
    peerPrev,     \* outcome of the run_scoring call before the last, when both
                  \* had the same payload
    peerReq,      \* arguments of the last run_scoring call
    peerOut,      \* what the last run_scoring call returned (or raised)
    peerKin,      \* the call before the last and its outcome, when this process made
                  \* it and its payload differed from the last one's only in the
                  \* order, the repetitions and the unknown keys of the priorities and
                  \* in a skill level that is neither beginner nor expert
    usecase_collection,    \* the use-case documents, in the order a query returns them
    framework_collection,  \* [metas: the factsheet metadatas, chunks: name -> doc chunks]
    endpoint,     \* the endpoint of the request in progress or answered last
    request,      \* its AgentRequest (`req` in the handlers)
    pc,           \* the statement of the handler that is executed next
    requirements, \* locals of run_agent
    profiler,
    ranked_use_cases,
    ranked_fw,
    frameworks_for_llm,   \* the top frameworks with the snippets fetched for them
    final_obj,
    controlled,
    answer,       \* the body of the HTTP response, parsed
    calls,        \* the external calls of this request, in the order they were made
    failed,       \* those of them that raised
    malformed,    \* the LLM calls of this request whose reply held no parsable JSON
    phase,        \* st.session_state of streamlit_ui/app.py: the template flow
    usecases,
    frameworks,
    last_payload,
    use_cases_data,   \* what the session's last api_post("/use-cases") returned
    error_shown       \* the error this run of the script displays, "" when none

tableVars == <<CAP, WEIGHTS, PRIORITY_WEIGHTS_BY_KEY, AGENT_TYPE_MULTIPLIERS, SKILL_MULTIPLIERS>>
peerVars == <<hashSeed, fpTable, peerPrev, peerReq, peerOut, peerKin>>
storeVars == <<usecase_collection, framework_collection>>
frameVars == <<endpoint, request, pc, requirements, profiler, ranked_use_cases, ranked_fw,
               frameworks_for_llm, final_obj, controlled, answer, calls, failed, malformed>>
uiVars == <<phase, usecases, frameworks, last_payload, use_cases_data, error_shown>>
vars == <<tableVars, peerVars, storeVars, uiVars, frameVars>>

-----------------------------------------------------------------------------
(* services/scoring_peer.py: functions                                     *)

\* cap.get(k, 0.0)
CapGet(cap, k) == IF k \in DOMAIN cap THEN cap[k] ELSE 0

\* sum(cap.get(k, 0.0) * v for k, v in w.items())
RECURSIVE _dot(_, _)
_dot(cap, w) ==
    IF Len(w) = 0 THEN 0
    ELSE CapGet(cap, w[1][1]) * w[1][2] + _dot(cap, Tail(w))

\* a slip: the agent type is compared as it was typed
MapCaseSensitive(agent_type) ==
    LET t == Strip(IF agent_type = None THEN "" ELSE agent_type)
    IN  IF t \in {"chatbot", "chat"} THEN "chat_support"
        ELSE IF Contains(t, "workflow") THEN "workflow"
        ELSE IF Contains(t, "multi") THEN "multi_agent"
        ELSE IF Contains(t, "analyse") \/ Contains(t, "analysis") THEN "research_analysis"
        ELSE IF Contains(t, "daten") \/ Contains(t, "data") THEN "data_document"
        ELSE "chat_support"

map_agent_type_to_bucket(agent_type) ==
    LET t == Lower(Strip(IF agent_type = None THEN "" ELSE agent_type))
    IN  IF t \in {"chatbot", "chat"} THEN "chat_support"
        ELSE IF Contains(t, "workflow") THEN "workflow"
        ELSE IF Contains(t, "multi") THEN "multi_agent"
        ELSE IF Contains(t, "analyse") \/ Contains(t, "analysis") THEN "research_analysis"
        ELSE IF Contains(t, "daten") \/ Contains(t, "data") THEN "data_document"
        ELSE "chat_support"

\* the keyword lists of derive_flags
RagWords == {"dokument", "docs", "knowledge", "wiki", "sharepoint", "retrieval", "suche", "search"}
AutomationWords == {"workflow", "automatis", "integration", "n8n"}
MultiWords == {"multi-agent", "multi agent", "orchestr", "crew"}

\* a slip: the text is searched as it was typed
FlagsCaseSensitive(use_case_text, priorities, agent_type_bucket) ==
    LET text == IF use_case_text = None THEN "" ELSE use_case_text
        pr == Range(priorities)
    IN  [rag_required |-> ("rag" \in pr) \/ ContainsAny(text, RagWords),
         automation_high |-> ("tools" \in pr) \/ ContainsAny(text, AutomationWords),
         multi_agent |-> ("multi" \in pr) \/ (agent_type_bucket = "multi_agent")
                            \/ ContainsAny(text, MultiWords)]

\* a slip: the bucket is not looked at
FlagsWithoutBucket(use_case_text, priorities, agent_type_bucket) ==
    LET text == Lower(IF use_case_text = None THEN "" ELSE use_case_text)
        pr == Range(priorities)
    IN  [rag_required |-> ("rag" \in pr) \/ ContainsAny(text, RagWords),
         automation_high |-> ("tools" \in pr) \/ ContainsAny(text, AutomationWords),
         multi_agent |-> ("multi" \in pr) \/ ContainsAny(text, MultiWords)]

derive_flags(use_case_text, priorities, agent_type_bucket) ==
    LET text == Lower(IF use_case_text = None THEN "" ELSE use_case_text)
        pr == Range(priorities)
    IN  [rag_required |->
            ("rag" \in pr) \/ ContainsAny(text, {"dokument", "docs", "knowledge", "wiki",
                                                "sharepoint", "retrieval", "suche", "search"}),
         automation_high |->
            ("tools" \in pr) \/ ContainsAny(text, {"workflow", "automatis", "integration", "n8n"}),
         multi_agent |->
            ("multi" \in pr) \/ (agent_type_bucket = "multi_agent")
                \/ ContainsAny(text, {"multi-agent", "multi agent", "orchestr", "crew"})]

\* the branch of the priority loop: the WEIGHTS key a priority activates, "" for none
PrioKey(p) ==
    CASE p = "tools" -> "prio:Integration"
      [] p = "rag" -> "prio:RAG"
      [] p = "multi" -> "prio:Multi-Agent"
      [] p = "privacy" -> "prio:Datenschutz"
      [] p = "speed" -> "prio:Speed"
      [] p = "memory" -> "prio:Memory"
      [] OTHER -> ""

\* the items of a list without their repetitions, in the order of their first
\* occurrence: the order in which set(priorities) inserts them
RECURSIVE Distinct(_)
Distinct(list) ==
    IF Len(list) = 0 THEN <<>>
    ELSE LET front == Distinct(SubSeq(list, 1, Len(list) - 1))
             x == list[Len(list)]
         IN  IF x \in Range(front) THEN front ELSE Append(front, x)

\* `for p in set(priorities)`: the iteration visits the slots of the hash table in
\* turn; strings whose hashes collide under the seed share a slot and are probed
\* onward in the order of their insertion
RECURSIVE SetOrder(_, _)
SetOrder(seed, priorities) ==
    IF Len(seed) = 0 THEN <<>>
    ELSE SelectSeq(Distinct(priorities), LAMBDA p : p \in seed[1])
         \o SetOrder(Tail(seed), priorities)

RECURSIVE PrioKeys(_)
PrioKeys(order) ==
    IF Len(order) = 0 THEN <<>>
    ELSE (IF PrioKey(order[1]) = "" THEN <<>> ELSE <<PrioKey(order[1])>>) \o PrioKeys(Tail(order))

\* the arguments of the calls of the model: of run_scoring and of score_frameworks
PeerAgentTypes == {"Chatbot", " DATEN-Agent", "Analyse-Agent", None}
PeerPriorities == {<<>>, <<"multi", "speed">>, <<"rag", "bogus", "rag">>}
PeerTexts == {None, "Docs for the Crew"}
PeerSkills == {None, "beginner", "Expert"}
EdgeAgentTypes == {"", None, "unknown"}
EdgePriorities == {<<>>, <<"rag", "bogus", "rag">>}
EdgeTexts == {"", None, "Docs for the Crew"}
KinPriorities ==
    {<<>>, <<"multi", "speed">>, <<"speed", "multi">>, <<"rag", "bogus", "rag">>, <<"rag">>}
KinSkills == {None, "", "intermediate", "guru", "beginner"}

\* map_agent_type_to_bucket, derive_flags and str.lower of these arguments,
\* computed once
MemoAgentTypes == PeerAgentTypes \cup EdgeAgentTypes
MemoPriorities == PeerPriorities \cup KinPriorities
MemoTexts == PeerTexts \cup EdgeTexts
MemoSkills == PeerSkills \cup KinSkills
Buckets == {"chat_support", "workflow", "multi_agent", "research_analysis", "data_document"}
BucketMemo == [a \in MemoAgentTypes |-> map_agent_type_to_bucket(a)]
FlagsMemo == [t \in MemoTexts, p \in MemoPriorities, b \in Buckets |-> derive_flags(t, p, b)]
LowerMemo == [s \in MemoSkills |-> Lower(IF s = None THEN "" ELSE s)]

\* (skill_level or "").lower()
LowerSkill(skill_level) ==
    IF skill_level \in MemoSkills THEN LowerMemo[skill_level]
    ELSE Lower(IF skill_level = None THEN "" ELSE skill_level)

\* a slip: every skill level that is not empty activates a skill vector
ActiveKeysAnySkill(agent_type, priorities, use_case_text, skill_level, order) ==
    LET agent_bucket == map_agent_type_to_bucket(agent_type)
        derived == derive_flags(use_case_text, priorities, agent_bucket)
        s == LowerSkill(skill_level)
    IN  <<"agent_type:" \o agent_bucket>>
        \o (IF derived.rag_required THEN <<"derived:rag_required">> ELSE <<>>)
        \o (IF derived.automation_high THEN <<"derived:automation_high">> ELSE <<>>)
        \o (IF derived.multi_agent THEN <<"derived:multi_agent">> ELSE <<>>)
        \o (IF s = "expert" THEN <<"skill:expert">>
            ELSE IF s # "" THEN <<"skill:beginner">> ELSE <<>>)
        \o PrioKeys(order)

\* the list `active`, as the WEIGHTS keys appended, in order
ActiveKeys(agent_type, priorities, use_case_text, skill_level, order) ==
    LET agent_bucket == IF agent_type \in MemoAgentTypes THEN BucketMemo[agent_type]
                        ELSE map_agent_type_to_bucket(agent_type)
        derived == IF use_case_text \in MemoTexts /\ priorities \in MemoPriorities
                   THEN FlagsMemo[use_case_text, priorities, agent_bucket]
                   ELSE derive_flags(use_case_text, priorities, agent_bucket)
        s == LowerSkill(skill_level)
    IN  <<"agent_type:" \o agent_bucket>>
        \o (IF derived.rag_required THEN <<"derived:rag_required">> ELSE <<>>)
        \o (IF derived.automation_high THEN <<"derived:automation_high">> ELSE <<>>)
        \o (IF derived.multi_agent THEN <<"derived:multi_agent">> ELSE <<>>)
        \o (IF s = "beginner" THEN <<"skill:beginner">>
            ELSE IF s = "expert" THEN <<"skill:expert">> ELSE <<>>)
        \o PrioKeys(order)

\* WEIGHTS.get(key, {})
WeightsGet(key) == IF key \in DOMAIN WEIGHTS THEN WEIGHTS[key] ELSE <<>>

\* total = sum of _dot(cap, w) over active, plus the baseline
RECURSIVE SumDots(_, _)
SumDots(cap, active) ==
    IF Len(active) = 0 THEN 0
    ELSE _dot(cap, WeightsGet(active[1])) + SumDots(cap, Tail(active))

\* a slip: the baseline is left out
RawWithoutBaseline(cap, active) == SumDots(cap, active)

RawTotal(cap, active) == SumDots(cap, active) + BASELINE

\* a slip: a framework whose low_code capability is 0.1 or less is skipped too
HasLowCode(fw) == fw \in DOMAIN CAP /\ CapGet(CAP[fw], "low_code") > 10

\* `cap = CAP.get(fw); if not cap: continue`
HasCap(fw) == fw \in DOMAIN CAP /\ DOMAIN CAP[fw] # {}

\* raw_scores, as the sequence of its items in insertion order
RECURSIVE RawScores(_, _)
RawScores(fws, active) ==
    IF Len(fws) = 0 THEN <<>>
    ELSE (IF HasCap(fws[1])
          THEN <<[framework |-> fws[1], raw |-> RawTotal(CAP[fws[1]], active)]>>
          ELSE <<>>) \o RawScores(Tail(fws), active)

MaxRaw(raws) == CHOOSE v \in {raws[i].raw : i \in 1..Len(raws)} :
                    \A i \in 1..Len(raws) : raws[i].raw <= v

UNIT == 10000

\* a slip: the smallest raw score as the denominator
MxOfMin(raws) ==
    IF Len(raws) > 0
    THEN CHOOSE v \in {raws[i].raw : i \in 1..Len(raws)} : \A i \in 1..Len(raws) : v <= raws[i].raw
    ELSE UNIT

\* mx = max(raw_scores.values()) if raw_scores else 1.0
Mx(raws) == IF Len(raws) > 0 THEN MaxRaw(raws) ELSE UNIT

\* a slip: val / mx without the clamp
NormUnclamped(val, mx) ==
    [n |-> IF mx < 0 THEN 0 - val ELSE val, d |-> IF mx < 0 THEN 0 - mx ELSE mx]

\* max(0.0, min(1.0, val / mx)) as an exact fraction, mx # 0
Norm(val, mx) ==
    LET n == IF mx < 0 THEN -val ELSE val
        d == IF mx < 0 THEN -mx ELSE mx
    IN  IF n < 0 THEN [n |-> 0, d |-> 1]
        ELSE IF n > d THEN [n |-> 1, d |-> 1]
        ELSE [n |-> n, d |-> d]

ScoreLess(a, b) == a.n * b.d < b.n * a.d

\* whether val / mx is left as it is by the clamp
Unclamped(val, mx) ==
    LET n == IF mx < 0 THEN -val ELSE val
        d == IF mx < 0 THEN -mx ELSE mx
    IN  0 <= n /\ n <= d

\* a slip: the sort without reverse=True
RECURSIVE InsertAsc(_, _)
InsertAsc(sorted, x) ==
    IF Len(sorted) = 0 THEN <<x>>
    ELSE IF ScoreLess(x.score, sorted[1].score) THEN <<x>> \o sorted
    ELSE <<sorted[1]>> \o InsertAsc(Tail(sorted), x)

\* list.sort(key=score, reverse=True): stable, descending
RECURSIVE InsertDesc(_, _)
InsertDesc(sorted, x) ==
    IF Len(sorted) = 0 THEN <<x>>
    ELSE IF ScoreLess(sorted[1].score, x.score) THEN <<x>> \o sorted
    ELSE <<sorted[1]>> \o InsertDesc(Tail(sorted), x)

RECURSIVE SortDesc(_, _)
SortDesc(done, todo) ==
    IF Len(todo) = 0 THEN done
    ELSE SortDesc(InsertDesc(done, todo[1]), Tail(todo))

Remove(seq, i) == SubSeq(seq, 1, i - 1) \o SubSeq(seq, i + 1, Len(seq))

\* The float scores of two frameworks whose exact raw scores are equal may compare
\* either way (the sums are rounded term by term), unless the clamp made both the
\* same constant or both have the same capability vector, which makes the two
\* computations the same.  FloatOrders is every order the sort can then leave
\* them in.
RECURSIVE FloatOrders(_)
FloatOrders(sorted) ==
    IF Len(sorted) = 0 THEN {<<>>}
    ELSE LET first == {1} \cup {i \in 2..Len(sorted) :
                            /\ sorted[i].raw = sorted[1].raw
                            /\ sorted[i].free /\ sorted[1].free
                            /\ CAP[sorted[i].framework] # CAP[sorted[1].framework]}
         IN  UNION {{<<sorted[i]>> \o rest : rest \in FloatOrders(Remove(sorted, i))} :
                        i \in first}

Strip3(items) == [i \in 1..Len(items) |->
                    [framework |-> items[i].framework, score |-> items[i].score]]

\* score_frameworks: every list it can return for these arguments when the set of
\* priorities iterates in `order`; ZeroDivisionError when mx = 0
score_frameworks(agent_type, priorities, use_case_text, skill_level, order) ==
    LET active == ActiveKeys(agent_type, priorities, use_case_text, skill_level, order)
        raws == RawScores(FRAMEWORKS, active)
        mx == Mx(raws)
        results == [i \in 1..Len(raws) |->
                      [framework |-> raws[i].framework,
                       score |-> Norm(raws[i].raw, mx),
                       raw |-> raws[i].raw,
                       free |-> Unclamped(raws[i].raw, mx)]]
    IN  IF mx = 0
        THEN {[raised |-> "ZeroDivisionError", value |-> <<>>]}
        ELSE {[raised |-> "", value |-> Strip3(l)] : l \in FloatOrders(SortDesc(<<>>, results))}


-----------------------------------------------------------------------------
(* app_agents/scoring_agent.py                                             *)

\* int(round(n / d)) for n >= 0, d > 0: Python rounds halves to the even integer
RoundHalfEven(n, d) ==
    LET q == n \div d
        r == n % d
    IN  IF 2 * r < d THEN q
        ELSE IF 2 * r > d THEN q + 1
        ELSE IF q % 2 = 0 THEN q ELSE q + 1

\* int(round(s * 100)) for a score s
PeerPercent(s) == RoundHalfEven(100 * s.n, s.d)

\* ranked[:3] if ranked else []
Top3(ranked) == SubSeq(ranked, 1, IF Len(ranked) < 3 THEN Len(ranked) ELSE 3)

\* the body of run_scoring after score_frameworks returned `ranked`
ScoringRecs(ranked) ==
    [i \in 1..Len(Top3(ranked)) |->
        [framework |-> ranked[i].framework,
         score |-> ranked[i].score,
         match_percent |-> PeerPercent(ranked[i].score)]]

\* payload.get(k) or default
OrDefault(v, default) == IF v = None \/ v = "" THEN default ELSE v

FwOrder(ranked) == [i \in 1..Len(ranked) |-> ranked[i].framework]

NoCall == [agent_type |-> None, priorities |-> <<>>, use_case_text |-> None,
           experience_level |-> None, order |-> <<>>]
NoOut == [raised |-> "not called", framework_candidates |-> <<>>,
          framework_recommendations |-> <<>>]
NoKin == [req |-> NoCall, out |-> NoOut]

SameArgs(a, b) ==
    /\ a.agent_type = b.agent_type
    /\ a.priorities = b.priorities
    /\ a.use_case_text = b.use_case_text
    /\ a.experience_level = b.experience_level

\* the priorities that activate a weight vector
KnownPriorities(priorities) == {p \in Range(priorities) : PrioKey(p) # ""}

\* the skill vector a skill level activates, "" for none
SkillKey(skill_level) ==
    IF LowerSkill(skill_level) \in {"beginner", "expert"} THEN LowerSkill(skill_level) ELSE ""

\* two different payloads that differ only in the order, the repetitions and the
\* unknown keys of their priorities and in a skill level without a vector
Akin(a, b) ==
    /\ ~ SameArgs(a, b)
    /\ a.agent_type = b.agent_type
    /\ a.use_case_text = b.use_case_text
    /\ KnownPriorities(a.priorities) = KnownPriorities(b.priorities)
    /\ SkillKey(a.experience_level) = SkillKey(b.experience_level)

\* score_frameworks(agent_type, payload's priorities, use_case_text, payload's
\* skill level) is called in the current process for `payload`, with the rest of
\* run_scoring when `recs`; peerPrev keeps the outcome of the call before it when
\* that call had the same payload
PeerCall(payload, agent_type, use_case_text, recs) ==
    LET priorities == payload.priorities
        skill_level == payload.experience_level
        order == SetOrder(hashSeed, priorities)
        active == ActiveKeys(agent_type, priorities, use_case_text, skill_level, order)
    IN  \E r \in score_frameworks(agent_type, priorities, use_case_text, skill_level, order) :
            /\ \A e \in fpTable : e[1] = active => e[2] = FwOrder(r.value)
            /\ fpTable' = {<<active, FwOrder(r.value)>>}
            /\ peerPrev' = IF SameArgs(peerReq, payload) THEN peerOut ELSE NoOut
            /\ peerKin' = IF peerOut.raised # "not called" /\ Akin(peerReq, payload)
                          THEN [req |-> peerReq, out |-> peerOut] ELSE NoKin
            /\ peerReq' = [payload EXCEPT !.order = order]
            /\ peerOut' = [raised |-> r.raised,
                           framework_candidates |-> r.value,
                           framework_recommendations |->
                               IF recs THEN ScoringRecs(r.value) ELSE <<>>]
            /\ UNCHANGED hashSeed

\* run_scoring(payload)
run_scoring(payload) ==
    PeerCall(payload, OrDefault(payload.agent_type, "unknown"),
             OrDefault(payload.use_case_text, ""), TRUE)


(***************************************************************************)
(* The dimension scorer of backend/api.py.  Priority weights are kept in   *)
(* hundredths and multipliers in tenths; a weight vector is the pair of    *)
(* the per-dimension sums and the number of vectors averaged, a total is   *)
(* the exact fraction [n, d].                                              *)
(***************************************************************************)
DIMS == <<"D1", "D2", "D3", "D4", "D5", "D6">>
DimSet == Range(DIMS)

DimRow(d1, d2, d3, d4, d5, d6) ==
    [d \in DimSet |-> CASE d = "D1" -> d1 [] d = "D2" -> d2 [] d = "D3" -> d3
                        [] d = "D4" -> d4 [] d = "D5" -> d5 [] d = "D6" -> d6]

\* {d: 1.0 for d in DIMS} as a weight vector (hundredths) and as a multiplier (tenths)
OnesW == DimRow(100, 100, 100, 100, 100, 100)
OnesM == DimRow(10, 10, 10, 10, 10, 10)

PriorityWeightsTable ==
    [p \in {"speed", "tools", "memory", "rag", "multi", "privacy"} |->
        CASE p = "speed"   -> DimRow(250, 75, 75, 75, 75, 150)
          [] p = "tools"   -> DimRow(75, 250, 75, 75, 150, 75)
          [] p = "memory"  -> DimRow(75, 75, 200, 100, 75, 75)
          [] p = "rag"     -> DimRow(75, 75, 220, 100, 75, 75)
          [] p = "multi"   -> DimRow(80, 100, 100, 220, 120, 100)
          [] p = "privacy" -> OnesW]

AgentTypeMultipliersTable ==
    [t \in {"Workflow-Agent", "Multi-Agent-System", "Daten-Agent", "Analyse-Agent",
            "Chatbot", "unknown"} |->
        CASE t = "Workflow-Agent"     -> DimRow(12, 13, 10, 7, 8, 10)
          [] t = "Multi-Agent-System" -> DimRow(8, 10, 10, 14, 12, 10)
          [] t = "Daten-Agent"        -> DimRow(10, 11, 14, 10, 10, 10)
          [] t = "Analyse-Agent"      -> DimRow(10, 10, 12, 10, 13, 10)
          [] t = "Chatbot"            -> DimRow(12, 10, 10, 10, 10, 11)
          [] t = "unknown"            -> OnesM]

SkillMultipliersTable ==
    [k \in {"beginner", "intermediate", "expert"} |->
        CASE k = "beginner"     -> DimRow(12, 10, 10, 10, 8, 14)
          [] k = "intermediate" -> OnesM
          [] k = "expert"       -> DimRow(10, 10, 10, 12, 14, 8)]

\* PRIORITY_WEIGHTS_BY_KEY.get(p, {d: 1.0 for d in DIMS})
PriorityVec(p) == IF p \in DOMAIN PRIORITY_WEIGHTS_BY_KEY THEN PRIORITY_WEIGHTS_BY_KEY[p] ELSE OnesW

RECURSIVE SumVecs(_, _)
SumVecs(priorities, d) ==
    IF priorities = <<>> THEN 0
    ELSE PriorityVec(Head(priorities))[d] + SumVecs(Tail(priorities), d)

\* a slip: a repeated priority is averaged once
AvgOverDistinct(priorities) ==
    IF priorities = <<>> THEN [sum |-> OnesW, n |-> 1]
    ELSE [sum |-> [d \in DimSet |-> SumVecs(Distinct(priorities), d)],
          n |-> Len(Distinct(priorities))]

_avg_weights(priorities) ==
    IF priorities = <<>> THEN [sum |-> OnesW, n |-> 1]
    ELSE [sum |-> [d \in DimSet |-> SumVecs(priorities, d)], n |-> Len(priorities)]

_get_agent_mult(agent_type) ==
    IF agent_type \in DOMAIN AGENT_TYPE_MULTIPLIERS THEN AGENT_TYPE_MULTIPLIERS[agent_type]
    ELSE OnesM

_get_skill_mult(skill_level) ==
    IF skill_level = None \/ skill_level = "" THEN OnesM
    ELSE IF skill_level \in DOMAIN SKILL_MULTIPLIERS THEN SKILL_MULTIPLIERS[skill_level]
    ELSE OnesM

\* dims.get(d, 0)
DimGet(dims, d) == IF d \in DOMAIN dims THEN dims[d] ELSE 0

Contrib(dims, weights, agent_mult, skill_mult, d) ==
    DimGet(dims, d) * weights.sum[d] * agent_mult[d] * skill_mult[d]

RECURSIVE SumContrib(_, _, _, _, _)
SumContrib(dims, weights, agent_mult, skill_mult, ds) ==
    IF ds = <<>> THEN 0
    ELSE Contrib(dims, weights, agent_mult, skill_mult, Head(ds))
         + SumContrib(dims, weights, agent_mult, skill_mult, Tail(ds))

\* the total and the per-dimension contributions, over the common denominator
\* 100 * 10 * 10 * n
_score_framework_dims(dims, weights, agent_mult, skill_mult) ==
    [total |-> [n |-> SumContrib(dims, weights, agent_mult, skill_mult, DIMS),
                d |-> 10000 * weights.n],
     per_dim |-> [d \in DimSet |-> Contrib(dims, weights, agent_mult, skill_mult, d)]]

(***************************************************************************)
(* Use case -> raw dimension scores (1..5) from text and metadata.         *)
(***************************************************************************)
\* re.sub(r"\s+", " ", t): runs of blanks become one blank
RECURSIVE Squeeze(_)
Squeeze(t) ==
    IF Len(t) < 2 THEN t
    ELSE LET left == Squeeze(SubSeq(t, 1, Len(t) \div 2))
             right == Squeeze(SubSeq(t, Len(t) \div 2 + 1, Len(t)))
         IN  IF CharAt(left, Len(left)) = " " /\ CharAt(right, 1) = " "
             THEN left \o SubSeq(right, 2, Len(right))
             ELSE left \o right

_norm(s) == IF s = None THEN "" ELSE Strip(Squeeze(Lower(s)))

\* (meta or {}).get(k, default)
MetaGet(meta, k, default) == IF k \in DOMAIN meta THEN meta[k] ELSE default

\* re.split(r"[,;|]", raw), as the set of the stripped non-empty parts
RECURSIVE SplitTags(_, _)
SplitTags(raw, part) ==
    LET done == IF Strip(part) = "" THEN {} ELSE {Strip(part)}
    IN  IF Len(raw) = 0 THEN done
        ELSE IF CharAt(raw, 1) \in {",", ";", "|"}
             THEN done \union SplitTags(SubSeq(raw, 2, Len(raw)), "")
        ELSE SplitTags(SubSeq(raw, 2, Len(raw)), part \o CharAt(raw, 1))

_tags_set(meta) ==
    LET got == MetaGet(meta, "tags", None)
        raw == _norm(IF got = None THEN "" ELSE got)
    IN  SplitTags(raw, "")

_has_any(text, kws) == ContainsAny(_norm(text), kws)

_bucket_score(strong, medium, weak) ==
    IF strong THEN 5 ELSE IF medium THEN 4 ELSE IF weak THEN 3 ELSE 2

Min2(a, b) == IF a < b THEN a ELSE b
Max2(a, b) == IF a < b THEN b ELSE a

\* a slip: the two adjustments raise each other's dimension
AdjustSwapped(raw, exp, learn) ==
    LET raw1 == IF exp = "beginner" THEN Min2(5, raw["D1"] + 1) ELSE raw["D1"]
        raw6 == IF learn = "simple" THEN Min2(5, raw["D6"] + 1) ELSE raw["D6"]
        adj == [raw EXCEPT !["D6"] = raw6, !["D1"] = raw1]
    IN  [d \in DimSet |-> Max2(1, Min2(5, adj[d]))]

\* the metadata adjustments of the raw scores, and the clamp to 1..5
AdjustDims(raw, exp, learn) ==
    LET raw6 == IF exp = "beginner" THEN Min2(5, raw["D6"] + 1) ELSE raw["D6"]
        raw1 == IF learn = "simple" THEN Min2(5, raw["D1"] + 1) ELSE raw["D1"]
        adj == [raw EXCEPT !["D6"] = raw6, !["D1"] = raw1]
    IN  [d \in DimSet |-> Max2(1, Min2(5, adj[d]))]

_use_case_raw_dims(doc_text, meta) ==
    LET text == _norm(doc_text)
        tags == _tags_set(meta)
        maturity == _norm(MetaGet(meta, "maturity", "unknown"))
        exp == _norm(MetaGet(meta, "experience_level", "unknown"))
        learn == _norm(MetaGet(meta, "learning_preference", "unknown"))
        d1_strong == _has_any(text, {"low effort", "quick", "fast", "short time", "schnell",
                                     "geringem aufwand"})
        d1_medium == _has_any(text, {"standard", "template", "out of the box",
                                     "schnell umgesetzt", "kurz"})
        d1_weak == "onboarding" \in tags \/ "assistant" \in tags
        d2_strong == "sharepoint" \in tags
                     \/ _has_any(text, {"connector", "connectors", "integration",
                                        "integrationen", "sharepoint", "tools"})
        d2_medium == _has_any(text, {"sources", "quellen", "datenquellen", "api", "workflow"})
        d2_weak == "search" \in tags
        d3_strong == "rag" \in tags \/ "documentation" \in tags \/ "qa" \in tags
                     \/ "knowledge" \in tags
                     \/ _has_any(text, {"rag", "retrieval", "dokument", "knowledge"})
        d3_medium == "knowledge-management" \in tags
                     \/ _has_any(text, {"handbuch", "manual", "spec", "wissensartikel",
                                        "troubleshooting"})
        d3_weak == "search" \in tags \/ _has_any(text, {"suche", "search"})
        d4_strong == "multi-agent" \in tags
                     \/ _has_any(text, {"multi-agent", "orchestr", "planner"})
        d4_medium == "workflow" \in tags
                     \/ _has_any(text, {"workflow", "pipeline", "automation"})
        d4_weak == _has_any(text, {"agent"})
        d5_strong == "privacy" \in tags \/ "security" \in tags \/ "compliance" \in tags
                     \/ _has_any(text, {"privacy", "datenschutz", "compliance", "on-prem",
                                        "security"})
        d5_medium == _has_any(text, {"permissions", "berechtigung", "rechte", "access",
                                     "policy"})
        d5_weak == FALSE
        d6_strong == Contains(maturity, "production")
                     \/ _has_any(text, {"works very good", "very good", "gute ergebnisse",
                                        "effective", "in der praxis möglich"})
        d6_medium == _has_any(text, {"achieved", "implemented", "standard"})
                     \/ maturity \notin {"", "unknown"}
        d6_weak == _has_any(text, {"needs clarification", "must be clarified", "challenges",
                                   "müssen geklärt", "klarification",
                                   "connector- und berechtigungsfragen"})
    IN  AdjustDims(DimRow(_bucket_score(d1_strong, d1_medium, d1_weak),
                          _bucket_score(d2_strong, d2_medium, d2_weak),
                          _bucket_score(d3_strong, d3_medium, d3_weak),
                          _bucket_score(d4_strong, d4_medium, d4_weak),
                          _bucket_score(d5_strong, d5_medium, d5_weak),
                          _bucket_score(d6_strong, d6_medium, d6_weak)),
                   exp, learn)

UseCaseDoc(document, metadata) == [document |-> document, metadata |-> metadata]

UcBuddy ==
    UseCaseDoc("Onboarding assistant: RAG retrieval over SharePoint docs,  quick to set up",
               [agent_name |-> "Onboarding Buddy", maturity |-> "Production",
                experience_level |-> "Beginner", learning_preference |-> "simple",
                tags |-> "onboarding, rag;SharePoint"])
UcTickets ==
    UseCaseDoc("Workflow automation pipeline for tickets, permissions need clarification",
               [agent_name |-> "", maturity |-> "pilot", tags |-> "workflow|search"])
UcPlanner == UseCaseDoc("Multi-Agent planner", <<>>)
UcPlain ==
    UseCaseDoc("Weekly report", [agent_name |-> "Reporter", maturity |-> "unknown",
                                 experience_level |-> "beginner"])
UcFew == <<UcPlain>>
UcMany == <<UcPlain, UcTickets, UcBuddy, UcPlanner>>

\* _use_case_raw_dims of the documents above, computed once
MemoDocs == Range(UcMany)
RawDimsMemo == [doc \in MemoDocs |-> _use_case_raw_dims(doc.document, doc.metadata)]

\* _use_case_raw_dims(doc_text, meta), looked up for a document of the memo
RawDims(doc_text, meta) ==
    IF UseCaseDoc(doc_text, meta) \in MemoDocs
    THEN RawDimsMemo[UseCaseDoc(doc_text, meta)]
    ELSE _use_case_raw_dims(doc_text, meta)

(***************************************************************************)
(* The dimension rankers.  A ranked item carries score_total as the exact  *)
(* fraction, match_percent as an integer and score as match_percent / 100. *)
(* The pass-through fields distance, similarity and score_breakdown are    *)
(* left out.                                                               *)
(***************************************************************************)
\* a slip: the sort without reverse=True
RECURSIVE InsertByTotalAsc(_, _)
InsertByTotalAsc(sorted, x) ==
    IF Len(sorted) = 0 THEN <<x>>
    ELSE IF x.total.n < sorted[1].total.n THEN <<x>> \o sorted
    ELSE <<sorted[1]>> \o InsertByTotalAsc(Tail(sorted), x)

\* scored.sort(key=lambda x: x[1], reverse=True): stable, descending by total;
\* all totals of one batch have the same denominator
RECURSIVE InsertByTotal(_, _)
InsertByTotal(sorted, x) ==
    IF Len(sorted) = 0 THEN <<x>>
    ELSE IF sorted[1].total.n < x.total.n THEN <<x>> \o sorted
    ELSE <<sorted[1]>> \o InsertByTotal(Tail(sorted), x)

RECURSIVE SortByTotal(_, _)
SortByTotal(done, todo) ==
    IF Len(todo) = 0 THEN done
    ELSE SortByTotal(InsertByTotal(done, todo[1]), Tail(todo))

\* a slip: the totals are normalised to their sum
RECURSIVE SumTotals(_)
SumTotals(scored) ==
    IF Len(scored) = 0 THEN 0 ELSE scored[1].total.n + SumTotals(Tail(scored))

BestOfSum(scored, den) ==
    LET best == IF Len(scored) > 0 THEN SumTotals(scored) ELSE den
    IN  IF best <= 0 THEN den ELSE best

\* best = scored[0][1] if scored else 1.0; if best <= 0: best = 1.0
\* (as a numerator over the denominator den of the batch)
BestOf(scored, den) ==
    LET best == IF Len(scored) > 0 THEN scored[1].total.n ELSE den
    IN  IF best <= 0 THEN den ELSE best

\* int(round((total / best) * 100)) for best > 0: a negative ratio rounds to at most 0
RoundPercent(total, best) ==
    IF total >= 0 THEN RoundHalfEven(100 * total, best)
    ELSE 0 - RoundHalfEven(100 * (0 - total), best)

\* max(0, min(100, match_percent))
MatchPercent(total, best) == Max2(0, Min2(100, RoundPercent(total, best)))

\* a slip: the percentage is divided by 1000
PercentScoreOfThousand(match_percent) == [n |-> match_percent, d |-> 1000]

\* float(match_percent) / 100.0
PercentScore(match_percent) == [n |-> match_percent, d |-> 100]

FirstN(seq, k) == SubSeq(seq, 1, Min2(k, Len(seq)))

\* the candidates built from what usecase_collection.query returned
_retrieve_bosch_use_cases(results) ==
    [i \in 1..Len(results) |->
        LET meta == results[i].metadata
            name == MetaGet(meta, "agent_name", None)
        IN  [title |-> IF name = None \/ name = "" THEN "Bosch Use Case" ELSE name,
             summary |-> results[i].document,
             metadata |-> meta]]

\* one entry of `scored`: (uc, total, per_dim, raw_dims)
ScoredUseCase(uc, raw_dims, weights, a_mult, s_mult) ==
    [uc |-> uc,
     total |-> _score_framework_dims(raw_dims, weights, a_mult, s_mult).total,
     raw_dims |-> raw_dims]

\* one item of the list returned, built from the entry t of `scored`
UseCaseItem(t, match_percent) ==
    [title |-> t.uc.title,
     summary |-> t.uc.summary,
     score_total |-> t.total,
     match_percent |-> match_percent,
     score |-> PercentScore(match_percent),
     metadata |-> t.uc.metadata,
     raw_dim_scores |-> t.raw_dims]

\* the scoring, the sort and the normalisation of the candidates
RankUseCases(candidates, weights, a_mult, s_mult, top_k) ==
    LET scored == SortByTotal(<<>>,
                    [i \in 1..Len(candidates) |->
                        ScoredUseCase(candidates[i],
                                      RawDims(candidates[i].summary, candidates[i].metadata),
                                      weights, a_mult, s_mult)])
    IN  [i \in 1..Min2(top_k, Len(candidates)) |->
            UseCaseItem(scored[i],
                        MatchPercent(scored[i].total.n, BestOf(scored, 10000 * weights.n)))]

\* _rank_bosch_use_cases_matrix after the retrieval returned `results`
_rank_bosch_use_cases_matrix(req, results, top_k) ==
    RankUseCases(_retrieve_bosch_use_cases(results),
                 _avg_weights(req.priorities),
                 _get_agent_mult(OrDefault(req.agent_type, "unknown")),
                 _get_skill_mult(req.experience_level),
                 top_k)

\* dims = {d: int(meta.get(d, 3)) for d in DIMS}
FactDims(meta) == [d \in DimSet |-> IF d \in DOMAIN meta.dims THEN meta.dims[d] ELSE 3]

\* the loop of the factsheet loader: items with an empty stripped name are skipped
RECURSIVE FactItems(_)
FactItems(metas) ==
    IF Len(metas) = 0 THEN <<>>
    ELSE LET fw == Strip(IF metas[1].framework = None THEN "" ELSE metas[1].framework)
         IN  (IF fw = "" THEN <<>>
              ELSE <<[framework |-> fw, dims |-> FactDims(metas[1]), url |-> metas[1].url]>>)
             \o FactItems(Tail(metas))

\* a slip: the first factsheet of a name is kept, later ones are dropped
RECURSIVE DedupKeepFirst(_, _)
DedupKeepFirst(done, todo) ==
    IF Len(todo) = 0 THEN done
    ELSE DedupKeepFirst(IF \E i \in 1..Len(done) : done[i].framework = todo[1].framework
                        THEN done ELSE Append(done, todo[1]),
                        Tail(todo))

\* dedup[item["framework"]] = item; list(dedup.values()): a name keeps the place of
\* its first item and the content of its last
RECURSIVE Dedup(_, _)
Dedup(done, todo) ==
    IF Len(todo) = 0 THEN done
    ELSE LET item == todo[1]
             known == \E i \in 1..Len(done) : done[i].framework = item.framework
         IN  Dedup(IF known
                   THEN [i \in 1..Len(done) |->
                            IF done[i].framework = item.framework THEN item ELSE done[i]]
                   ELSE Append(done, item),
                   Tail(todo))

\* _load_framework_factsheets_from_chroma when framework_collection.get returned
\* `metas`; when the call raised the loader returns [] (see LoadFactsheets)
_load_framework_factsheets_from_chroma(metas) == Dedup(<<>>, FactItems(metas))

\* the ranking of `facts` for the request: _rank_all_frameworks in api.py
_rank_all_frameworks(req, facts) ==
    LET weights == _avg_weights(req.priorities)
        a_mult == _get_agent_mult(OrDefault(req.agent_type, "unknown"))
        s_mult == _get_skill_mult(req.experience_level)
        scored == SortByTotal(<<>>,
                    [i \in 1..Len(facts) |->
                        [fw |-> facts[i],
                         total |-> _score_framework_dims(facts[i].dims, weights, a_mult,
                                                         s_mult).total]])
        best == BestOf(scored, 10000 * weights.n)
    IN  IF Len(facts) = 0 THEN <<>>
        ELSE [i \in 1..Len(scored) |->
                LET match_percent == MatchPercent(scored[i].total.n, best)
                IN  [framework |-> scored[i].fw.framework,
                     dims |-> scored[i].fw.dims,
                     url |-> scored[i].fw.url,
                     score_total |-> scored[i].total,
                     match_percent |-> match_percent,
                     score |-> PercentScore(match_percent)]]

(***************************************************************************)
(* JSON values, LLM replies, _extract_json and _ensure_final_shape.        *)
(* A JSON value is [t, v]: its type and its content; an object's content   *)
(* is a function from its keys.  A reply text is kept as what the parser   *)
(* reads of it: whether it is empty, whether it opens with a code fence,   *)
(* what json.loads makes of the fenced part, and what it makes of the part *)
(* from the first "{" to the last "}".                                     *)
(***************************************************************************)
JStr(s) == [t |-> "str", v |-> s]
JList(l) == [t |-> "list", v |-> l]
JDict(f) == [t |-> "dict", v |-> f]
JNull == [t |-> "null", v |-> <<>>]
EmptyDict == JDict(<<>>)

\* json.loads raised / the regular expression found nothing
Unparsable == [t |-> "unparsable", v |-> <<>>]
NoMatch == [t |-> "nomatch", v |-> <<>>]

PlainJson(j) == [empty |-> FALSE, fence |-> FALSE, fenced |-> Unparsable, braces |-> j]
FencedJson(j) == [empty |-> FALSE, fence |-> TRUE, fenced |-> j,
                  braces |-> IF j.t = "dict" THEN j ELSE NoMatch]
Prose == [empty |-> FALSE, fence |-> FALSE, fenced |-> Unparsable, braces |-> NoMatch]
EmptyText == [empty |-> TRUE, fence |-> FALSE, fenced |-> Unparsable, braces |-> NoMatch]
BrokenJson == [empty |-> FALSE, fence |-> FALSE, fenced |-> Unparsable, braces |-> Unparsable]
\* a fence whose content does not parse, around an object that does
FencedBroken(j) == [empty |-> FALSE, fence |-> TRUE, fenced |-> Unparsable, braces |-> j]

\* a slip: None instead of {} when nothing parses
ExtractNone(text) ==
    IF text.empty THEN JNull
    ELSE IF text.fence /\ text.fenced # Unparsable THEN text.fenced
    ELSE IF text.braces = NoMatch \/ text.braces = Unparsable THEN JNull
    ELSE text.braces

_extract_json(text) ==
    IF text.empty THEN EmptyDict
    ELSE IF text.fence /\ text.fenced # Unparsable THEN text.fenced
    ELSE IF text.braces = NoMatch \/ text.braces = Unparsable THEN EmptyDict
    ELSE text.braces

\* Python truth value of a JSON value
Falsy(j) ==
    \/ j.t = "null"
    \/ j.t \in {"dict", "list"} /\ DOMAIN j.v = {}
    \/ j.t = "str" /\ j.v = ""

\* obj.get(k) of a dict
Get(obj, k) == IF k \in DOMAIN obj.v THEN obj.v[k] ELSE JNull

\* obj.setdefault(k, default) of the content f of a dict
SetDefault(f, k, default) == IF k \in DOMAIN f THEN f ELSE f @@ (k :> default)

\* _ensure_final_shape(obj): the dict it returns, or AttributeError when obj is
\* neither falsy nor a dict
_ensure_final_shape(obj) ==
    LET o == IF Falsy(obj) THEN EmptyDict ELSE obj
        mode == Get(o, "mode")
        f1 == IF mode = JStr("agents") \/ mode = JStr("frameworks") THEN o.v
              ELSE ("mode" :> JStr("frameworks")) @@ o.v
        f2 == SetDefault(f1, "agent_recommendations", JList(<<>>))
        f3 == SetDefault(f2, "framework_recommendations", JList(<<>>))
    IN  IF o.t # "dict" THEN [raised |-> "AttributeError", value |-> EmptyDict]
        ELSE [raised |-> "", value |-> JDict(f3)]

\* the payload of the except branch of run_agent
ErrorPayload(e) ==
    _ensure_final_shape(JDict([k \in {"mode", "agent_recommendations",
                                      "framework_recommendations", "error"} |->
        CASE k = "mode" -> JStr("frameworks")
          [] k = "agent_recommendations" -> JList(<<>>)
          [] k = "framework_recommendations" -> JList(<<>>)
          [] k = "error" -> JStr(e)])).value

(***************************************************************************)
(* POST /agent (run_agent) and POST /use-cases.  run_agent is cut at its   *)
(* external calls: an action is one external call, which returns or        *)
(* raises, and the code that follows it up to the next call.  Starting an  *)
(* operation discards what the operation before it left behind, and the    *)
(* locals requirements and profiler, which nothing reads once final_obj is *)
(* built, are dropped there.                                               *)
(***************************************************************************)
NoRequest == [agent_type |-> "", priorities |-> <<>>, use_case |-> "",
              experience_level |-> None, learning_preference |-> None,
              force_frameworks |-> FALSE]

\* the frame of a request that starts
NewFrame(ep, r, at) ==
    /\ endpoint' = ep
    /\ request' = r
    /\ pc' = at
    /\ requirements' = JNull
    /\ profiler' = JNull
    /\ ranked_use_cases' = <<>>
    /\ ranked_fw' = <<>>
    /\ frameworks_for_llm' = <<>>
    /\ final_obj' = JNull
    /\ controlled' = JNull
    /\ answer' = JNull
    /\ calls' = <<>>
    /\ failed' = <<>>
    /\ malformed' = <<>>

\* the peer scorer's last call is forgotten
ForgetPeer ==
    /\ fpTable' = {}
    /\ peerPrev' = NoOut
    /\ peerReq' = NoCall
    /\ peerOut' = NoOut
    /\ peerKin' = NoKin
    /\ UNCHANGED hashSeed

Idle == pc = "idle"

\* the response is sent and the frame of the request is gone
Respond ==
    /\ pc = "done"
    /\ NewFrame("", NoRequest, "idle")
    /\ UNCHANGED <<tableVars, peerVars, storeVars, uiVars>>

\* the reply text holds nothing json.loads accepts, neither in its code fence
\* nor between its first "{" and its last "}"
NoJson(text) ==
    text.empty \/ (text.fenced = Unparsable /\ text.braces \in {NoMatch, Unparsable})

\* the LLM answered `call` with `text`
Heard(call, text) ==
    malformed' = IF NoJson(text) THEN Append(malformed, call) ELSE malformed

\* except Exception as e: the answer is the error payload
Fail(call, e) ==
    /\ answer' = ErrorPayload(e)
    /\ pc' = "done"
    /\ calls' = Append(calls, call)
    /\ failed' = Append(failed, call)

\* the call raised inside Runner or the store client
Raises(call) ==
    /\ Fail(call, "call failed")
    /\ UNCHANGED <<endpoint, request, frameworks_for_llm, requirements, profiler,
                   ranked_use_cases, ranked_fw,
                   final_obj, controlled, malformed>>

\* the call returned and the code after it raised e
RaisesAfter(call, e) ==
    /\ answer' = ErrorPayload(e)
    /\ pc' = "done"
    /\ calls' = Append(calls, call)
    /\ UNCHANGED <<failed, endpoint, request, frameworks_for_llm, requirements, profiler,
                   ranked_use_cases,
                   ranked_fw, final_obj, controlled>>

ReqDict == JDict("requirements_summary" :> JStr("needs document search"))
Persona == JDict("persona_name" :> JStr("Pragmatic Builder"))
AList == JList(<<JStr("x")>>)

RequirementsReplies == {PlainJson(ReqDict), FencedJson(ReqDict), Prose, FencedJson(AList),
                        FencedJson(JNull)}
ProfilerReplies == {PlainJson(Persona), EmptyText, FencedJson(AList)}

StartAgent(r) ==
    /\ Idle
    /\ NewFrame("/agent", r, "RequirementsAgent")
    /\ ForgetPeer
    /\ UNCHANGED <<tableVars, storeVars, uiVars>>

\* 1) Requirements; the profiler payload reads requirements.get(...)
CallRequirements ==
    /\ pc = "RequirementsAgent"
    /\ \/ Raises("RequirementsAgent")
       \/ \E text \in RequirementsReplies :
            LET got == _extract_json(text)
            IN  IF got.t # "dict"
                THEN RaisesAfter("RequirementsAgent", "AttributeError") /\ Heard("RequirementsAgent", text)
                ELSE /\ requirements' = got
                     /\ pc' = "ProfilerAgent"
                     /\ calls' = Append(calls, "RequirementsAgent")
                     /\ Heard("RequirementsAgent", text)
                     /\ UNCHANGED <<endpoint, request, frameworks_for_llm, profiler, ranked_use_cases, ranked_fw,
                                    final_obj, controlled, answer, failed>>
    /\ UNCHANGED <<tableVars, peerVars, storeVars, uiVars>>

\* 2) Profiler
CallProfiler ==
    /\ pc = "ProfilerAgent"
    /\ \/ Raises("ProfilerAgent")
       \/ \E text \in ProfilerReplies :
            /\ profiler' = _extract_json(text)
            /\ pc' = "usecase_query"
            /\ calls' = Append(calls, "ProfilerAgent")
            /\ Heard("ProfilerAgent", text)
            /\ UNCHANGED <<endpoint, request, frameworks_for_llm, requirements, ranked_use_cases, ranked_fw,
                           final_obj, controlled, answer, failed>>
    /\ UNCHANGED <<tableVars, peerVars, storeVars, uiVars>>

\* retrieval_n and top_k as the two endpoints pass them
RETRIEVAL_N == 15
TOP_K == 3

\* 3) the use cases, ranked by the matrix
QueryUseCases ==
    /\ pc = "usecase_query"
    /\ \/ Raises("usecase_query")
       \/ /\ ranked_use_cases' = _rank_bosch_use_cases_matrix(request,
                                    FirstN(usecase_collection, RETRIEVAL_N), TOP_K)
          /\ pc' = "factsheet_get"
          /\ calls' = Append(calls, "usecase_query")
          /\ UNCHANGED <<endpoint, request, frameworks_for_llm, requirements, profiler, ranked_fw,
                         final_obj, controlled, answer, failed, malformed>>
    /\ UNCHANGED <<tableVars, peerVars, storeVars, uiVars>>

\* best_score >= 0.35
AtLeast35(score) == 100 * score.n >= 35 * score.d

\* a slip: the best score is not looked at
SuggestWhenEmpty(ranked) == Len(ranked) = 0

\* suggest_show_frameworks of both endpoints
SuggestShowFrameworks(ranked) == ~ (Len(ranked) > 0 /\ AtLeast35(ranked[1].score))

\* a slip: the frameworks branch is taken whatever the use cases score
WantAlways(req, ranked) == TRUE

\* want_frameworks = bool(req.force_frameworks) or bool(suggest_show_frameworks)
WantFrameworks(req, ranked) ==
    req.force_frameworks = TRUE \/ SuggestShowFrameworks(ranked)

\* agent_recs and final_obj of the agents mode
AgentsObj(ranked) ==
    LET top == FirstN(ranked, 3)
        agent_recs == [i \in 1..Len(top) |->
                         [title |-> top[i].title, summary |-> top[i].summary,
                          score |-> top[i].score, match_percent |-> top[i].match_percent,
                          metadata |-> top[i].metadata]]
    IN  JDict([k \in {"mode", "agent_recommendations", "framework_recommendations"} |->
            CASE k = "mode" -> JStr("agents")
              [] k = "agent_recommendations" -> JList(agent_recs)
              [] k = "framework_recommendations" -> JList(<<>>)])

\* a slip: the loader without its try/except, as in services/scoring.py
LoadFactsheetsUnguarded ==
    /\ pc = "factsheet_get"
    /\ \/ Raises("factsheet_get")
       \/ LET facts == _load_framework_factsheets_from_chroma(framework_collection.metas)
              ranked == _rank_all_frameworks(request, facts)
              want == WantFrameworks(request, ranked_use_cases)
          IN  /\ ranked_fw' = ranked
              /\ calls' = Append(calls, "factsheet_get")
              /\ pc' = IF ~ want THEN "ControlAgent"
                       ELSE IF Len(ranked) > 0 THEN "snippet_query" ELSE "DecisionAgent"
              /\ final_obj' = IF want THEN final_obj ELSE AgentsObj(ranked_use_cases)
              /\ UNCHANGED <<requirements, profiler, failed, malformed, endpoint, request, frameworks_for_llm,
                             ranked_use_cases, controlled, answer>>
    /\ UNCHANGED <<tableVars, peerVars, storeVars, uiVars>>

\* 4) the framework ranking; a factsheet load that raises is an empty load
LoadFactsheets ==
    /\ pc = "factsheet_get"
    /\ \E raised \in BOOLEAN :
          LET facts == IF raised THEN <<>>
                       ELSE _load_framework_factsheets_from_chroma(framework_collection.metas)
              ranked == _rank_all_frameworks(request, facts)
              want == WantFrameworks(request, ranked_use_cases)
          IN  /\ ranked_fw' = ranked
              /\ calls' = Append(calls, "factsheet_get")
              /\ failed' = IF raised THEN Append(failed, "factsheet_get") ELSE failed
              /\ UNCHANGED malformed
              /\ IF want
                 THEN /\ pc' = IF Len(ranked) > 0 THEN "snippet_query" ELSE "DecisionAgent"
                      /\ UNCHANGED final_obj
                 ELSE /\ pc' = "ControlAgent"
                      /\ final_obj' = AgentsObj(ranked_use_cases)
              /\ IF want THEN UNCHANGED <<requirements, profiler>>
                 ELSE requirements' = JNull /\ profiler' = JNull
    /\ UNCHANGED <<endpoint, request, frameworks_for_llm, ranked_use_cases, controlled, answer>>
    /\ UNCHANGED <<tableVars, peerVars, storeVars, uiVars>>

\* _get_framework_snippets_for_framework: the chunks of the framework, or [] when
\* the query raised
Snippets(name, n_results, raised) ==
    IF raised \/ name \notin DOMAIN framework_collection.chunks THEN <<>>
    ELSE FirstN(framework_collection.chunks[name], n_results)

\* n_results of the snippet queries of run_agent
SNIPPETS_N == 2

RECURSIVE Repeat(_, _)
Repeat(x, k) == IF k = 0 THEN <<>> ELSE <<x>> \o Repeat(x, k - 1)

\* 5) one snippet query for each of the top three frameworks; the queries in `bad`
\* raise, which the helper swallows
QuerySnippets ==
    /\ pc = "snippet_query"
    /\ \E bad \in SUBSET (1..Len(FirstN(ranked_fw, 3))) :
          /\ frameworks_for_llm' =
                [i \in 1..Len(FirstN(ranked_fw, 3)) |->
                    [framework |-> ranked_fw[i].framework,
                     snippets |-> Snippets(ranked_fw[i].framework, SNIPPETS_N, i \in bad)]]
          /\ calls' = calls \o Repeat("snippet_query", Len(FirstN(ranked_fw, 3)))
          /\ failed' = failed \o Repeat("snippet_query", Cardinality(bad))
          /\ UNCHANGED malformed
    /\ pc' = "DecisionAgent"
    /\ UNCHANGED <<endpoint, request, requirements, profiler, ranked_use_cases, ranked_fw,
                   final_obj, controlled, answer>>
    /\ UNCHANGED <<tableVars, peerVars, storeVars, uiVars>>

\* a framework_texts item as the DecisionAgent is asked to write it
TextItem(name, word) ==
    [k \in {"framework", "description", "match_reason", "pros", "cons", "recommendation"} |->
        CASE k = "framework" -> name
          [] k = "description" -> word \o " description"
          [] k = "match_reason" -> word \o " reason"
          [] k = "pros" -> <<word \o " pro">>
          [] k = "cons" -> <<word \o " con">>
          [] k = "recommendation" -> word \o " advice"]

Reverse(seq) == [i \in 1..Len(seq) |-> seq[Len(seq) + 1 - i]]

\* replies of the DecisionAgent for the frameworks `names`: the texts in order; the
\* texts reversed, with a framework that was not asked for, an item without a name,
\* own scores and a second item for the first name; framework_texts that is no
\* list; no JSON; a JSON list
TextsInOrder(names) == [i \in 1..Len(names) |-> TextItem(names[i], "first")]
TextsShuffled(names) ==
    <<TextItem("AutoGPT", "other"), [k \in {"description"} |-> "nameless"]>>
    \o Reverse([i \in 1..Len(names) |->
                  TextItem(names[i], "second") @@ ("score" :> 1) @@ ("match_percent" :> 100)])
    \o (IF Len(names) > 0 THEN <<[k \in {"framework", "pros"} |->
                                     IF k = "framework" THEN names[1] ELSE <<"third pro">>]>>
        ELSE <<>>)

DecisionReplies(names) ==
    {PlainJson(JDict("framework_texts" :> JList(TextsInOrder(names)))),
     FencedJson(JDict("framework_texts" :> JList(TextsShuffled(names)))),
     FencedBroken(JDict("framework_texts" :> JStr("n/a"))),
     Prose,
     FencedJson(AList)}

\* t.get(k, default) of a text item
TextGet(t, k, default) == IF k \in DOMAIN t THEN t[k] ELSE default

\* texts_by_name.get(name, {}): the last item that carries this name
TextsByName(items, name) ==
    LET hits == {i \in 1..Len(items) : "framework" \in DOMAIN items[i]
                                       /\ items[i]["framework"] = name}
    IN  IF hits = {} THEN <<>>
        ELSE items[CHOOSE i \in hits : \A j \in hits : j <= i]

\* a slip: one recommendation for each text the DecisionAgent wrote, in its order
FrameworksObjAsWritten(top3_fw, decision_texts) ==
    LET items == IF decision_texts.t = "dict"
                    /\ Get(decision_texts, "framework_texts").t = "list"
                 THEN Get(decision_texts, "framework_texts").v ELSE <<>>
        named == SelectSeq(items, LAMBDA t : "framework" \in DOMAIN t)
        framework_recs == [i \in 1..Len(named) |->
            [framework |-> named[i]["framework"],
             score |-> [n |-> 100, d |-> 100],
             description |-> TextGet(named[i], "description", ""),
             match_percent |-> 100]]
    IN  JDict([k \in {"mode", "agent_recommendations", "framework_recommendations"} |->
            CASE k = "mode" -> JStr("frameworks")
              [] k = "agent_recommendations" -> JList(<<>>)
              [] k = "framework_recommendations" -> JList(framework_recs)])

\* framework_recs and final_obj of the frameworks mode
FrameworksObj(top3_fw, decision_texts) ==
    LET items == IF decision_texts.t = "dict"
                    /\ Get(decision_texts, "framework_texts").t = "list"
                 THEN Get(decision_texts, "framework_texts").v ELSE <<>>
        framework_recs == [i \in 1..Len(top3_fw) |->
            LET fw == top3_fw[i]
                t == TextsByName(items, fw.framework)
            IN  [framework |-> fw.framework,
                 score |-> fw.score,
                 description |-> TextGet(t, "description", ""),
                 match_reason |-> TextGet(t, "match_reason", ""),
                 pros |-> TextGet(t, "pros", <<>>),
                 cons |-> TextGet(t, "cons", <<>>),
                 recommendation |-> TextGet(t, "recommendation", ""),
                 match_percent |-> fw.match_percent,
                 url |-> fw.url]]
    IN  JDict([k \in {"mode", "agent_recommendations", "framework_recommendations"} |->
            CASE k = "mode" -> JStr("frameworks")
              [] k = "agent_recommendations" -> JList(<<>>)
              [] k = "framework_recommendations" -> JList(framework_recs)])

FwNames(ranked) == [i \in 1..Len(ranked) |-> ranked[i].framework]

\* the DecisionAgent writes the texts, which are merged into the ranking by name
CallDecision ==
    /\ pc = "DecisionAgent"
    /\ \/ Raises("DecisionAgent")
       \/ \E text \in DecisionReplies(FwNames(FirstN(ranked_fw, 3))) :
            /\ final_obj' = FrameworksObj(FirstN(ranked_fw, 3), _extract_json(text))
            /\ pc' = "ControlAgent"
            /\ calls' = Append(calls, "DecisionAgent")
            /\ Heard("DecisionAgent", text)
            /\ requirements' = JNull /\ profiler' = JNull /\ frameworks_for_llm' = <<>>
            /\ UNCHANGED <<endpoint, request, ranked_use_cases, ranked_fw, controlled,
                           answer, failed>>
    /\ UNCHANGED <<tableVars, peerVars, storeVars, uiVars>>

\* what an agent that was handed obj may send back instead of it: the lists
\* reversed, every item promoted to a full match
Promote(list) ==
    IF list.t # "list" THEN list
    ELSE JList(Reverse([i \in 1..Len(list.v) |->
                          [list.v[i] EXCEPT !.score = [n |-> 100, d |-> 100],
                                            !.match_percent = 100]]))

Tampered(obj) ==
    JDict([k \in DOMAIN obj.v |->
             IF k \in {"agent_recommendations", "framework_recommendations"}
             THEN Promote(obj.v[k]) ELSE obj.v[k]])

BadShape == JDict(("mode" :> JStr("agents")) @@ ("agent_recommendations" :> JStr("none")))

\* replies of the ControlAgent and of the AdvisorAgent to the object obj
EchoReplies(obj) ==
    {PlainJson(obj), FencedJson(obj), FencedBroken(obj), Prose, EmptyText, BrokenJson,
     FencedJson(AList), FencedJson(JNull), PlainJson(Tampered(obj)), PlainJson(BadShape)}

CallControl ==
    /\ pc = "ControlAgent"
    /\ \/ Raises("ControlAgent")
       \/ \E text \in EchoReplies(final_obj) :
            LET shaped == _ensure_final_shape(_extract_json(text))
            IN  IF shaped.raised # ""
                THEN RaisesAfter("ControlAgent", shaped.raised) /\ Heard("ControlAgent", text)
                ELSE /\ controlled' = shaped.value
                     /\ pc' = "AdvisorAgent"
                     /\ calls' = Append(calls, "ControlAgent")
                     /\ Heard("ControlAgent", text)
                     /\ UNCHANGED <<endpoint, request, frameworks_for_llm, requirements, profiler,
                                    ranked_use_cases, ranked_fw, final_obj, answer, failed>>
    /\ UNCHANGED <<tableVars, peerVars, storeVars, uiVars>>

CallAdvisor ==
    /\ pc = "AdvisorAgent"
    /\ \/ Raises("AdvisorAgent")
       \/ \E text \in EchoReplies(controlled) :
            LET out == _ensure_final_shape(_extract_json(text))
            IN  IF out.raised # ""
                THEN RaisesAfter("AdvisorAgent", out.raised) /\ Heard("AdvisorAgent", text)
                ELSE /\ answer' = out.value
                     /\ pc' = "done"
                     /\ calls' = Append(calls, "AdvisorAgent")
                     /\ Heard("AdvisorAgent", text)
                     /\ UNCHANGED <<endpoint, request, frameworks_for_llm, requirements, profiler,
                                    ranked_use_cases, ranked_fw, final_obj, controlled, failed>>
    /\ UNCHANGED <<tableVars, peerVars, storeVars, uiVars>>

\* a slip: the weights are summed up in the table's own row of the first priority
UseCasesInPlace(r) ==
    /\ Idle
    /\ endpoint' = "/use-cases"
    /\ request' = r
    /\ pc' = "done"
    /\ requirements' = JNull /\ profiler' = JNull /\ ranked_fw' = <<>>
    /\ frameworks_for_llm' = <<>>
    /\ final_obj' = JNull /\ controlled' = JNull
    /\ calls' = <<"usecase_query">>
    /\ malformed' = <<>>
    /\ failed' = <<>>
    /\ LET ranked == _rank_bosch_use_cases_matrix(r,
                            FirstN(usecase_collection, RETRIEVAL_N), TOP_K)
       IN  /\ ranked_use_cases' = ranked
           /\ answer' = [status |-> 200, use_cases |-> ranked,
                         suggest_show_frameworks |-> SuggestShowFrameworks(ranked),
                         best_score |-> IF Len(ranked) > 0 THEN ranked[1].score ELSE None]
    /\ PRIORITY_WEIGHTS_BY_KEY' =
          IF r.priorities # <<>> /\ r.priorities[1] \in DOMAIN PRIORITY_WEIGHTS_BY_KEY
          THEN [PRIORITY_WEIGHTS_BY_KEY EXCEPT
                    ![r.priorities[1]] = [d \in DimSet |-> SumVecs(r.priorities, d)]]
          ELSE PRIORITY_WEIGHTS_BY_KEY
    /\ ForgetPeer
    /\ UNCHANGED <<CAP, WEIGHTS, AGENT_TYPE_MULTIPLIERS, SKILL_MULTIPLIERS, storeVars, uiVars>>

\* POST /use-cases: one retrieval; an exception becomes HTTP 500
UseCases(r) ==
    /\ Idle
    /\ endpoint' = "/use-cases"
    /\ request' = r
    /\ pc' = "done"
    /\ requirements' = JNull /\ profiler' = JNull /\ ranked_fw' = <<>>
    /\ frameworks_for_llm' = <<>>
    /\ final_obj' = JNull /\ controlled' = JNull
    /\ calls' = <<"usecase_query">>
    /\ malformed' = <<>>
    /\ \/ /\ failed' = <<"usecase_query">>
          /\ ranked_use_cases' = <<>>
          /\ answer' = [status |-> 500, use_cases |-> <<>>,
                        suggest_show_frameworks |-> FALSE, best_score |-> None]
       \/ LET ranked == _rank_bosch_use_cases_matrix(r,
                            FirstN(usecase_collection, RETRIEVAL_N), TOP_K)
          IN  /\ failed' = <<>>
              /\ ranked_use_cases' = ranked
              /\ answer' = [status |-> 200, use_cases |-> ranked,
                            suggest_show_frameworks |-> SuggestShowFrameworks(ranked),
                            best_score |-> IF Len(ranked) > 0 THEN ranked[1].score ELSE None]
    /\ ForgetPeer
    /\ UNCHANGED <<tableVars, storeVars, uiVars>>

(***************************************************************************)
(* services/scoring.py: the same ranking as a library, with its own copies *)
(* of the three tables (equal to the ones of api.py) and a loader that     *)
(* lets the store's exception through.                                     *)
(***************************************************************************)
RECURSIVE SumTableVecs(_, _)
SumTableVecs(priorities, d) ==
    IF priorities = <<>> THEN 0
    ELSE (IF Head(priorities) \in DOMAIN PriorityWeightsTable
          THEN PriorityWeightsTable[Head(priorities)][d] ELSE OnesW[d])
         + SumTableVecs(Tail(priorities), d)

avg_weights(priorities) ==
    IF priorities = <<>> THEN [sum |-> OnesW, n |-> 1]
    ELSE [sum |-> [d \in DimSet |-> SumTableVecs(priorities, d)], n |-> Len(priorities)]

get_agent_mult(agent_type) ==
    IF agent_type \in DOMAIN AgentTypeMultipliersTable
    THEN AgentTypeMultipliersTable[agent_type] ELSE OnesM

get_skill_mult(skill_level) ==
    IF skill_level = None \/ skill_level = "" THEN OnesM
    ELSE IF skill_level \in DOMAIN SkillMultipliersTable THEN SkillMultipliersTable[skill_level]
    ELSE OnesM

RECURSIVE SumDims(_, _, _, _, _)
SumDims(dims, weights, agent_mult, skill_mult, ds) ==
    IF ds = <<>> THEN 0
    ELSE DimGet(dims, Head(ds)) * weights.sum[Head(ds)] * agent_mult[Head(ds)]
            * skill_mult[Head(ds)]
         + SumDims(dims, weights, agent_mult, skill_mult, Tail(ds))

score_dims(dims, weights, agent_mult, skill_mult) ==
    [total |-> [n |-> SumDims(dims, weights, agent_mult, skill_mult, DIMS),
                d |-> 10000 * weights.n],
     per_dim |-> [d \in DimSet |->
                    DimGet(dims, d) * weights.sum[d] * agent_mult[d] * skill_mult[d]]]

load_framework_factsheets(metas) == Dedup(<<>>, FactItems(metas))

\* rank_all_frameworks after framework_collection.get returned `metas`
rank_all_frameworks(req, metas) ==
    LET facts == load_framework_factsheets(metas)
        weights == avg_weights(req.priorities)
        a_mult == get_agent_mult(OrDefault(req.agent_type, "unknown"))
        s_mult == get_skill_mult(req.experience_level)
        scored == SortByTotal(<<>>,
                    [i \in 1..Len(facts) |->
                        [fw |-> facts[i],
                         total |-> score_dims(facts[i].dims, weights, a_mult, s_mult).total]])
        best == BestOf(scored, 10000 * weights.n)
    IN  IF Len(facts) = 0 THEN <<>>
        ELSE [i \in 1..Len(scored) |->
                LET match_percent == MatchPercent(scored[i].total.n, best)
                IN  [framework |-> scored[i].fw.framework,
                     dims |-> scored[i].fw.dims,
                     url |-> scored[i].fw.url,
                     score_total |-> scored[i].total,
                     match_percent |-> match_percent,
                     score |-> PercentScore(match_percent)]]

\* a caller of the library ranks the frameworks for r; the store's exception
\* reaches the caller
RankAllFrameworks(r) ==
    /\ Idle
    /\ endpoint' = "rank_all_frameworks"
    /\ request' = r
    /\ pc' = "done"
    /\ requirements' = JNull /\ profiler' = JNull /\ ranked_use_cases' = <<>>
    /\ frameworks_for_llm' = <<>>
    /\ final_obj' = JNull /\ controlled' = JNull /\ answer' = JNull
    /\ calls' = <<"factsheet_get">>
    /\ malformed' = <<>>
    /\ \/ /\ failed' = <<"factsheet_get">>
          /\ ranked_fw' = <<>>
       \/ /\ failed' = <<>>
          /\ ranked_fw' = rank_all_frameworks(r, framework_collection.metas)
    /\ ForgetPeer
    /\ UNCHANGED <<tableVars, storeVars, uiVars>>

(***************************************************************************)
(* streamlit_ui/app.py: the template flow of the UI.  One action is one    *)
(* run of the script after a click.  What api_post gives is [raised, data]:*)
(* the message of the exception it raised ("" when it returned) and the    *)
(* parsed JSON body.  A JSON string that is itself parsed (the `answer` of *)
(* /agent) is kept as [empty, json]: whether it is "", and what json.loads *)
(* makes of it.                                                            *)
(***************************************************************************)
JBool(b) == [t |-> "bool", v |-> b]
Invalid == [t |-> "invalid", v |-> <<>>]
JsonText(value) == JStr([empty |-> FALSE, json |-> value])
Returned(data) == [raised |-> "", data |-> data]
Raised(message) == [raised |-> message, data |-> JNull]

\* bool(value) of a parsed JSON value
Truthy(value) ==
    CASE value.t = "list" -> Len(value.v) > 0
      [] value.t = "dict" -> DOMAIN value.v # {}
      [] value.t = "bool" -> value.v
      [] value.t = "str" -> ~ value.v.empty
      [] OTHER -> FALSE

\* data.get(key, default)
GetOr(data, key, default) == IF key \in DOMAIN data.v THEN data.v[key] ELSE default

AGENT_TYPES_DISPLAY == <<"Chatbot", "Daten-Agent", "Workflow-Agent", "Analyse-Agent", "Multi-Agent-System", "Ich weiß es nicht">>

AGENT_TYPE_MAP == [display \in Range(AGENT_TYPES_DISPLAY) |-> IF display = "Ich weiß es nicht" THEN "unknown" ELSE display]

FillAllFields == "Bitte alle Pflichtfelder ausfüllen."

\* the session state a new session starts with
InitSession ==
    /\ phase = "form"
    /\ usecases = JList(<<>>)
    /\ frameworks = JList(<<>>)
    /\ last_payload = NoRequest
    /\ use_cases_data = JNull
    /\ error_shown = ""

\* what the user entered in the form; None is a select box left open
Forms ==
    [agent_display : {"Chatbot", "Ich weiß es nicht"}, priorities : {<<>>, <<"speed", "rag">>},
     experience : {"beginner", "expert"}, learning : {"simple"},
     use_case : {"Search our handbook"}]
    \cup [agent_display : {None, "Daten-Agent"}, priorities : {<<"tools">>},
          experience : {None, "intermediate"}, learning : {None, "learn"},
          use_case : {"   ", "Plan my week"}]

\* not agent_display or not experience or not learning or not use_case.strip()
Incomplete(form) ==
    \/ form.agent_display = None
    \/ form.experience = None
    \/ form.learning = None
    \/ Strip(form.use_case) = ""

\* the payload of the form (force_frameworks is not sent: the request's default)
Payload(form) ==
    [agent_type |-> AGENT_TYPE_MAP[form.agent_display],
     priorities |-> form.priorities,
     use_case |-> form.use_case,
     experience_level |-> form.experience,
     learning_preference |-> form.learning,
     force_frameworks |-> FALSE]

\* the body /use-cases of api.py answers the payload with
UseCasesBody(payload, ranked) ==
    JDict([use_cases |-> JList(ranked),
           suggest_show_frameworks |-> JBool(SuggestShowFrameworks(ranked)),
           best_score |-> IF Len(ranked) > 0 THEN [t |-> "num", v |-> ranked[1].score]
                          ELSE JNull])

SomeUseCase == [title |-> "Ticket triage", summary |-> "Sorts tickets", match_percent |-> 30]

\* what api_post("/use-cases", payload) may give: the answer of api.py over the
\* store, its HTTP 500, no connection, and bodies of other servers
UseCasesReplies(payload) ==
    {Returned(UseCasesBody(payload,
                _rank_bosch_use_cases_matrix(payload, FirstN(usecase_collection, RETRIEVAL_N),
                                             TOP_K))),
     Raised("HTTP 500"),
     Raised("Backend liefert kein gültiges JSON."),
     Returned(JList(<<>>)),
     Returned(EmptyDict),
     Returned(JDict([use_cases |-> JList(<<SomeUseCase>>)])),
     Returned(JDict([use_cases |-> JList(<<SomeUseCase>>),
                     suggest_show_frameworks |-> JBool(TRUE)])),
     Returned(JDict([use_cases |-> JList(<<>>), suggest_show_frameworks |-> JBool(FALSE)])),
     Returned(JDict([use_cases |-> JList(<<SomeUseCase>>), suggest_show_frameworks |-> JNull]))}

SomeFramework == [framework |-> "LangGraph", description |-> "Graphs", match_percent |-> 100]

\* what api_post("/agent", {**payload, "force_frameworks": True}) may give
AgentReplies ==
    {Returned(JDict([answer |-> JsonText(JDict([mode |-> JStr("frameworks"),
                                                 agent_recommendations |-> JList(<<>>),
                                                 framework_recommendations |->
                                                     JList(<<SomeFramework>>)]))])),
     Returned(JDict([answer |-> JsonText(JDict([mode |-> JStr("frameworks"),
                                                 agent_recommendations |-> JList(<<>>),
                                                 framework_recommendations |-> JList(<<>>),
                                                 error |-> JStr("call failed")]))])),
     Returned(JDict([answer |-> JsonText(JDict([mode |-> JStr("agents"),
                                                 framework_recommendations |-> JNull]))])),
     Returned(JDict([framework_recommendations |-> JList(<<SomeFramework, SomeFramework>>)])),
     Returned(JDict([answer |-> JsonText(Invalid)])),
     Returned(JDict([answer |-> JsonText(JList(<<>>))])),
     Returned(JDict([answer |-> JNull])),
     Returned(JList(<<>>)),
     Raised("HTTP 500"),
     Raised("Read timed out.")}

\* parse_frameworks(data): [raised, value]
parse_frameworks(data) ==
    IF data.t # "dict" THEN [raised |-> "AttributeError", value |-> JNull]
    ELSE IF Get(data, "framework_recommendations").t = "list"
    THEN [raised |-> "", value |-> data.v["framework_recommendations"]]
    ELSE LET answer_text == Get(data, "answer")
             parsed == IF ~ Truthy(answer_text) THEN EmptyDict
                       ELSE IF answer_text.t = "str" THEN answer_text.v.json
                       ELSE Invalid
         IN  [raised |-> "",
              value |-> IF parsed.t = "dict"
                        THEN GetOr(parsed, "framework_recommendations", JList(<<>>))
                        ELSE JList(<<>>)]

\* a slip: the use cases are shown whenever there are some
ShowsAnyUseCases(found, suggest_frameworks) == Truthy(found)

\* if usecases and suggest_frameworks is False
ShowsUseCases(found, suggest_frameworks) ==
    Truthy(found) /\ suggest_frameworks.t = "bool" /\ suggest_frameworks.v = FALSE

\* the run ends with st.error(message), or with the exception that left it
Fails(message) ==
    /\ error_shown' = message
    /\ UNCHANGED <<phase, usecases, frameworks>>

\* st.session_state.frameworks = parse_frameworks(data_fw); phase = "frameworks"
StoreFrameworks(reply) ==
    IF reply.raised # "" THEN Fails(reply.raised)
    ELSE IF parse_frameworks(reply.data).raised # ""
    THEN Fails(parse_frameworks(reply.data).raised)
    ELSE /\ frameworks' = parse_frameworks(reply.data).value
         /\ phase' = "frameworks"
         /\ error_shown' = ""
         /\ UNCHANGED usecases

\* the rest of the submit after api_post("/use-cases") returned `data`
AfterUseCases(data) ==
    IF data.t # "dict" THEN Fails("AttributeError")
    ELSE IF ShowsUseCases(GetOr(data, "use_cases", JList(<<>>)),
                          GetOr(data, "suggest_show_frameworks", JBool(TRUE)))
    THEN /\ usecases' = GetOr(data, "use_cases", JList(<<>>))
         /\ phase' = "usecases"
         /\ error_shown' = ""
         /\ UNCHANGED frameworks
    ELSE \E reply \in AgentReplies : StoreFrameworks(reply)

\* phase "form": the button "Vorschläge erhalten" is clicked
Submit(form) ==
    /\ phase = "form"
    /\ IF Incomplete(form)
       THEN Fails(FillAllFields) /\ UNCHANGED <<last_payload, use_cases_data>>
       ELSE /\ last_payload' = Payload(form)
            /\ \E reply \in UseCasesReplies(Payload(form)) :
                  IF reply.raised # ""
                  THEN Fails(reply.raised) /\ UNCHANGED use_cases_data
                  ELSE use_cases_data' = reply.data /\ AfterUseCases(reply.data)
    /\ UNCHANGED <<tableVars, peerVars, storeVars, frameVars>>

\* phase "usecases": the button "Passt nicht – Frameworks anzeigen" is clicked
ShowFrameworks ==
    /\ phase = "usecases"
    /\ \E reply \in AgentReplies : StoreFrameworks(reply)
    /\ UNCHANGED <<last_payload, use_cases_data>>
    /\ UNCHANGED <<tableVars, peerVars, storeVars, frameVars>>

\* any other interaction runs the script again: it writes nothing to the session
Rerun ==
    /\ error_shown' = ""
    /\ UNCHANGED <<phase, usecases, frameworks, last_payload, use_cases_data>>
    /\ UNCHANGED <<tableVars, peerVars, storeVars, frameVars>>

(***************************************************************************)
(* The requests, the store contents and the specifications.                *)
(***************************************************************************)
\* the vocabulary of the requests below over the slots of the hash table, for two
\* hash seeds: under the first the hashes of "multi" and "speed" collide
SeedA == <<{"rag"}, {"multi", "speed"}, {"tools"}, {"bogus"}>>
SeedB == <<{"bogus"}, {"tools"}, {"speed"}, {"multi"}, {"rag"}>>
Seeds == {SeedA, SeedB}

PeerPayloads ==
    [agent_type : PeerAgentTypes, priorities : PeerPriorities,
     use_case_text : PeerTexts, experience_level : PeerSkills, order : {<<>>}]

\* a caller runs the scoring agent
RunScoring ==
    /\ Idle
    /\ \E payload \in PeerPayloads : run_scoring(payload)
    /\ UNCHANGED <<tableVars, storeVars, uiVars, frameVars>>

\* the server process is restarted: Python draws a new hash seed
Restart ==
    /\ Idle
    /\ hashSeed' \in Seeds \ {hashSeed}
    /\ peerKin' = NoKin
    /\ UNCHANGED <<fpTable, peerPrev, peerReq, peerOut>>
    /\ UNCHANGED <<tableVars, storeVars, uiVars, frameVars>>

AgentTypes == {"Daten-Agent", ""}
Priorities == {<<>>, <<"rag", "bogus", "speed">>}
ExperienceLevels == {None, "beginner"}
AgentRequests ==
    [agent_type : AgentTypes, priorities : Priorities, use_case : {"Search our handbook"},
     experience_level : ExperienceLevels, learning_preference : {None},
     force_frameworks : BOOLEAN]

Fact(name, d1, d2, d3, d4, d5, d6, url) ==
    [framework |-> name, dims |-> DimRow(d1, d2, d3, d4, d5, d6), url |-> url]

\* the factsheets ingest_framework_docs.py writes
FactsAll ==
    <<Fact("LangGraph", 3, 4, 3, 5, 4, 3, "https://langgraph"),
      Fact("LangChain", 4, 5, 4, 3, 4, 4, "https://langchain"),
      Fact("n8n", 5, 4, 2, 2, 3, 4, None),
      Fact("CrewAI", 4, 3, 3, 4, 3, 3, None),
      Fact("Google ADK", 4, 4, 3, 4, 3, 3, None),
      Fact("OpenAI Agents SDK", 4, 4, 3, 4, 4, 3, None),
      Fact("Claude Agent SDK", 4, 4, 3, 3, 4, 3, None),
      Fact("Cognigy", 4, 5, 3, 3, 3, 4, None)>>

\* the number of them a store of the model holds
MaxFactsheets == 4

FactsIngested == FirstN(FactsAll, MaxFactsheets)

\* names to strip, to skip and to deduplicate; dimensions that are missing
FactsMessy ==
    <<[framework |-> " LangGraph ", dims |-> [d \in {"D1", "D4"} |-> 5], url |-> None],
      [framework |-> "  ", dims |-> DimRow(5, 5, 5, 5, 5, 5), url |-> None],
      [framework |-> None, dims |-> DimRow(5, 5, 5, 5, 5, 5), url |-> None],
      Fact("CrewAI", 4, 3, 3, 4, 3, 3, None),
      Fact("LangGraph", 3, 4, 3, 5, 4, 3, "https://langgraph")>>

\* factsheets whose scores were never filled in
FactsUnrated ==
    <<Fact("n8n", 0, 0, 0, 0, 0, 0, None), Fact("CrewAI", 0, 0, 0, 0, 0, 0, None)>>

Chunks == ("LangChain" :> <<"chunk 1", "chunk 2", "chunk 3">>) @@ ("n8n" :> <<"chunk 4">>)

FrameworkCollection(metas) == [metas |-> metas, chunks |-> Chunks]

\* the contents of the two collections the server may be started over
Stores ==
    {<<UcMany, FrameworkCollection(FactsIngested)>>,
     <<UcMany, FrameworkCollection(FactsMessy)>>,
     <<UcFew, FrameworkCollection(FactsUnrated)>>,
     <<UcFew, FrameworkCollection(<<>>)>>,
     <<<<>>, FrameworkCollection(FactsIngested)>>}

InitTables ==
    /\ CAP = CapTable
    /\ WEIGHTS = WeightsTable
    /\ PRIORITY_WEIGHTS_BY_KEY = PriorityWeightsTable
    /\ AGENT_TYPE_MULTIPLIERS = AgentTypeMultipliersTable
    /\ SKILL_MULTIPLIERS = SkillMultipliersTable

InitProcess ==
    /\ fpTable = {}
    /\ peerPrev = NoOut
    /\ peerReq = NoCall
    /\ peerOut = NoOut
    /\ peerKin = NoKin
    /\ endpoint = "" /\ request = NoRequest /\ pc = "idle"
    /\ requirements = JNull /\ profiler = JNull
    /\ ranked_use_cases = <<>> /\ ranked_fw = <<>> /\ frameworks_for_llm = <<>>
    /\ final_obj = JNull /\ controlled = JNull /\ answer = JNull
    /\ calls = <<>> /\ failed = <<>> /\ malformed = <<>>
    /\ InitSession

\* the API server with the shipped tables over any of the stores
Init ==
    /\ InitTables
    /\ InitProcess
    /\ hashSeed = SeedA
    /\ \E store \in Stores : /\ usecase_collection = store[1]
                             /\ framework_collection = store[2]

Agent ==
    \/ \E r \in AgentRequests : StartAgent(r)
    \/ CallRequirements
    \/ CallProfiler
    \/ QueryUseCases
    \/ LoadFactsheets
    \/ QuerySnippets
    \/ CallDecision
    \/ CallControl
    \/ CallAdvisor

Next ==
    \/ Agent
    \/ Respond
    \/ \E r \in AgentRequests : UseCases(r)
    \/ \E r \in AgentRequests : RankAllFrameworks(r)

Spec == Init /\ [][Next]_vars

\* the scoring agent alone, over the shipped tables
InitPeer ==
    /\ InitTables
    /\ InitProcess
    /\ hashSeed \in Seeds
    /\ usecase_collection = <<>>
    /\ framework_collection = FrameworkCollection(<<>>)

\* the API server and the scoring agent in one process, over the shipped tables
NextServer == RunScoring \/ Next

SpecServer == Init /\ [][NextServer]_vars

NextTemplate == (\E form \in Forms : Submit(form)) \/ ShowFrameworks \/ Rerun

SpecTemplate == Init /\ [][NextTemplate]_vars

NextPeer == RunScoring \/ Restart

SpecPeer == InitPeer /\ [][NextPeer]_vars

(***************************************************************************)
(* score_frameworks called directly, in one process: arguments that        *)
(* run_scoring would replace (an empty agent type), and arguments that     *)
(* differ in the order, the repetitions and the unknown keys of the        *)
(* priorities or in a skill level without a weight vector.                 *)
(***************************************************************************)
\* an agent type or a text that is empty or None, priorities with an unknown key
EdgePayloads ==
    [agent_type : EdgeAgentTypes, priorities : EdgePriorities,
     use_case_text : EdgeTexts, experience_level : {None}, order : {<<>>}]

\* the same priorities in another order, repeated or with an unknown key; skill
\* levels without a weight vector
KinPayloads ==
    [agent_type : {"Analyse-Agent"}, priorities : KinPriorities,
     use_case_text : {""}, experience_level : KinSkills, order : {<<>>}]

DirectPayloads == EdgePayloads \cup KinPayloads

\* a caller calls score_frameworks
ScoreFrameworks ==
    /\ Idle
    /\ \E args \in DirectPayloads :
          PeerCall(args, args.agent_type, args.use_case_text, FALSE)
    /\ UNCHANGED <<tableVars, storeVars, uiVars, frameVars>>

NextDirect == ScoreFrameworks

SpecDirect == InitPeer /\ [][NextDirect]_vars

(***************************************************************************)
(* The helper functions called directly.  The frame of such a call holds   *)
(* the name of the function, its arguments and the value it returned.      *)
(***************************************************************************)
LibAgentTypes ==
    {None, "", "Chatbot", "Daten-Agent", "Workflow-Agent", "Analyse-Agent", "Multi-Agent-System",
     "unknown", " CHAT ", "Multi-Agent Workflow", "Data Analysis", "Sales Bot"}
LibTexts == {None, "", "document search", "Orchestrate the CREW", "n8n Integration", "hello"}
LibPriorities == {<<>>, <<"rag">>, <<"tools", "multi">>, <<"bogus">>, <<"rag", "rag", "speed">>}

\* the function `name` is called with `args` and returns `value`
Returns(name, args, value) ==
    /\ Idle
    /\ endpoint' = name
    /\ request' = args
    /\ answer' = value
    /\ pc' = "done"
    /\ requirements' = JNull /\ profiler' = JNull
    /\ ranked_use_cases' = <<>> /\ ranked_fw' = <<>> /\ frameworks_for_llm' = <<>>
    /\ final_obj' = JNull /\ controlled' = JNull
    /\ calls' = <<>> /\ failed' = <<>> /\ malformed' = <<>>
    /\ UNCHANGED <<tableVars, peerVars, storeVars, uiVars>>

CallMapAgentType ==
    \E a \in LibAgentTypes :
        Returns("map_agent_type_to_bucket", [agent_type |-> a], map_agent_type_to_bucket(a))

CallDeriveFlags ==
    \E t \in LibTexts, p \in LibPriorities, b \in Buckets :
        Returns("derive_flags",
                [use_case_text |-> t, priorities |-> p, agent_type_bucket |-> b],
                derive_flags(t, p, b))

\* _avg_weights of api.py and avg_weights of services/scoring.py
CallAvgWeights ==
    \E p \in LibPriorities :
        \/ Returns("_avg_weights", [priorities |-> p], _avg_weights(p))
        \/ Returns("avg_weights", [priorities |-> p], avg_weights(p))

\* use-case documents with and without the two metadata fields that adjust the
\* raw scores
UcSimple == UseCaseDoc("Weekly report", [learning_preference |-> " Simple "])
UcExpert ==
    UseCaseDoc("Quick planner, works very good",
               [experience_level |-> "expert", learning_preference |-> "deep"])
LibDocs == Range(UcMany) \cup {UcSimple, UcExpert, UseCaseDoc(None, <<>>)}

CallUseCaseRawDims ==
    \E doc \in LibDocs :
        Returns("_use_case_raw_dims", [doc_text |-> doc.document, meta |-> doc.metadata],
                _use_case_raw_dims(doc.document, doc.metadata))

NextLib ==
    CallMapAgentType \/ CallDeriveFlags \/ CallAvgWeights \/ CallUseCaseRawDims \/ Respond

SpecLib == InitPeer /\ [][NextLib]_vars

(***************************************************************************)
(* The same operations over tables and factsheets that are not the shipped *)
(* ones: negative capabilities and weights, a raw score of zero, missing   *)
(* capability vectors, factsheet scores outside 0..5.                      *)
(***************************************************************************)
Negated(cap) == [k \in DOMAIN cap |-> 0 - cap[k]]

\* every capability negative: every raw score is negative
CapNegative == [fw \in ALLOWED_FRAMEWORKS |-> Negated(CapTable[fw])]

\* 0.2 * -0.25 + 0.05: the raw score of a chat bot request is 0 for every framework
CapZero == [fw \in ALLOWED_FRAMEWORKS |-> [k \in {"enterprise"} |-> 0 - 25]]

\* negative for some frameworks, none for others, doubled for one
CapMixed ==
    [fw \in ALLOWED_FRAMEWORKS \ {"n8n"} |->
        IF fw \in {"LangChain", "Cognigy"} THEN Negated(CapTable[fw])
        ELSE IF fw = "CrewAI" THEN <<>>
        ELSE IF fw = "LangGraph" THEN [k \in DOMAIN CapTable[fw] |-> 2 * CapTable[fw][k]]
        ELSE CapTable[fw]]

NegatedVec(w) == [i \in 1..Len(w) |-> <<w[i][1], 0 - w[i][2]>>]
WeightsNegative == [k \in DOMAIN WeightsTable |-> NegatedVec(WeightsTable[k])]

NegatedRows(table) == [k \in DOMAIN table |-> [d \in DimSet |-> 0 - table[k][d]]]
ZeroRows(table) == [k \in DOMAIN table |-> [d \in DimSet |-> 0]]

FactsSigned ==
    <<Fact("LangGraph", 0 - 3, 4, 3, 0 - 5, 4, 3, None),
      Fact("LangChain", 9, 9, 9, 9, 9, 9, None),
      Fact("n8n", 0 - 5, 0 - 4, 0 - 2, 0 - 2, 0 - 3, 0 - 4, None),
      Fact("CrewAI", 0, 0, 0, 0, 0, 0, None)>>

FactsNegative ==
    <<Fact("n8n", 0 - 5, 0 - 4, 0 - 2, 0 - 2, 0 - 3, 0 - 4, None),
      Fact("CrewAI", 0 - 1, 0 - 1, 0 - 1, 0 - 1, 0 - 1, 0 - 1, None)>>

AnyTables ==
    {[cap |-> CapNegative, weights |-> WeightsTable,
      priority |-> NegatedRows(PriorityWeightsTable), agent |-> AgentTypeMultipliersTable,
      skill |-> SkillMultipliersTable, usecases |-> UcMany, metas |-> FactsSigned],
     [cap |-> CapZero, weights |-> WeightsTable,
      priority |-> PriorityWeightsTable, agent |-> ZeroRows(AgentTypeMultipliersTable),
      skill |-> SkillMultipliersTable, usecases |-> UcMany, metas |-> FactsIngested],
     [cap |-> CapMixed, weights |-> WeightsTable,
      priority |-> PriorityWeightsTable, agent |-> AgentTypeMultipliersTable,
      skill |-> NegatedRows(SkillMultipliersTable), usecases |-> UcMany,
      metas |-> FactsNegative],
     [cap |-> CapTable, weights |-> WeightsNegative,
      priority |-> PriorityWeightsTable, agent |-> AgentTypeMultipliersTable,
      skill |-> SkillMultipliersTable, usecases |-> UcFew, metas |-> FactsUnrated],
     [cap |-> <<>>, weights |-> <<>>,
      priority |-> <<>>, agent |-> <<>>, skill |-> <<>>,
      usecases |-> UcMany, metas |-> FactsIngested]}

InitAnyTables ==
    /\ \E tables \in AnyTables :
          /\ CAP = tables.cap
          /\ WEIGHTS = tables.weights
          /\ PRIORITY_WEIGHTS_BY_KEY = tables.priority
          /\ AGENT_TYPE_MULTIPLIERS = tables.agent
          /\ SKILL_MULTIPLIERS = tables.skill
          /\ usecase_collection = tables.usecases
          /\ framework_collection = FrameworkCollection(tables.metas)
    /\ InitProcess
    /\ hashSeed = SeedA

NextAnyTables == RunScoring \/ Next

SpecAnyTables == InitAnyTables /\ [][NextAnyTables]_vars

(***************************************************************************)
(* Properties of the peer scorer (SpecPeer).                               *)
(***************************************************************************)
PeerReturned == peerOut.raised = ""
PeerList == peerOut.framework_candidates

\* the raw scores of the call that peerOut answers, recomputed from its arguments
PeerRaws ==
    RawScores(FRAMEWORKS,
              ActiveKeys(OrDefault(peerReq.agent_type, "unknown"), peerReq.priorities,
                         OrDefault(peerReq.use_case_text, ""), peerReq.experience_level,
                         peerReq.order))

InUnit(score) == score.d > 0 /\ 0 <= score.n /\ score.n <= score.d

\* C2: every score of the list score_frameworks returns lies in [0,1], and the
\* scores do not increase from the first item to the last.
ScoresInUnitAndSorted ==
    PeerReturned =>
        /\ \A i \in 1..Len(PeerList) : InUnit(PeerList[i].score)
        /\ \A i \in 1..(Len(PeerList) - 1) :
              ~ ScoreLess(PeerList[i].score, PeerList[i + 1].score)

\* a call returned all eight frameworks, with a score strictly inside (0,1) and a
\* strict descent
ScoresSortedWitness ==
    /\ PeerReturned
    /\ Len(PeerList) = 8
    /\ \E i \in 1..7 : /\ ScoreLess(PeerList[i + 1].score, PeerList[i].score)
                       /\ 0 < PeerList[i + 1].score.n

\* C3: the first framework of the list score_frameworks returns is one whose raw
\* sum over the active weight vectors is the largest among the frameworks that
\* have a capability vector.
FirstHasMaxRaw ==
    PeerReturned /\ Len(PeerList) > 0 =>
        \E i \in 1..Len(PeerRaws) :
            /\ PeerRaws[i].framework = PeerList[1].framework
            /\ PeerRaws[i].raw = MaxRaw(PeerRaws)

\* a call whose first framework is not the first one scored and beats another one
FirstHasMaxRawWitness ==
    /\ PeerReturned
    /\ Len(PeerList) = 8
    /\ PeerList[1].framework # FRAMEWORKS[1]
    /\ \E i \in 1..Len(PeerRaws) : PeerRaws[i].raw < MaxRaw(PeerRaws)

\* C7: two calls of score_frameworks with the same agent_type, priorities,
\* use_case_text and skill_level return the same list: the same frameworks in the
\* same order with the same scores.
SameArgsSameList ==
    peerPrev.raised # "not called" => peerPrev = peerOut

(***************************************************************************)
(* Properties of score_frameworks called directly (SpecDirect).            *)
(***************************************************************************)
PeerCalled == peerOut.raised # "not called"

\* the frameworks of the list FRAMEWORKS that have a capability vector
WithCapability ==
    {fw \in ALLOWED_FRAMEWORKS : fw \in DOMAIN CAP /\ CAP[fw] # <<>>}

\* C12: score_frameworks does not raise, whatever its agent_type, priorities, text
\* and skill_level are, and returns exactly one entry, with a score of at least
\* 0, for every framework that has a capability vector.
NeverRaisesAndScoresAll ==
    PeerCalled =>
        /\ PeerReturned
        /\ Len(PeerList) = Cardinality(WithCapability)
        /\ \A fw \in WithCapability :
              Cardinality({i \in 1..Len(PeerList) : PeerList[i].framework = fw}) = 1
        /\ \A i \in 1..Len(PeerList) : PeerList[i].score.d > 0 /\ PeerList[i].score.n >= 0

\* the call of the example returned the eight frameworks: no priorities, an
\* unrecognized agent type, an empty text and no skill level
NeverRaisesWitness ==
    /\ peerReq.agent_type = "unknown" /\ peerReq.priorities = <<>>
    /\ peerReq.use_case_text = "" /\ peerReq.experience_level = None
    /\ PeerReturned
    /\ Len(PeerList) = 8

\* the weight vectors the last call has to add up: the vector of the bucket, one
\* for each derived flag that is true, the skill vector, one for each known
\* priority
VectorsOf(req) ==
    LET bucket == map_agent_type_to_bucket(req.agent_type)
        flags == derive_flags(req.use_case_text, req.priorities, bucket)
        skill == Lower(IF req.experience_level = None THEN "" ELSE req.experience_level)
    IN  {"agent_type:" \o bucket}
        \cup {"derived:" \o f : f \in {g \in DOMAIN flags : flags[g]}}
        \cup {"skill:" \o k : k \in {skill} \cap {"beginner", "expert"}}
        \cup {PrioKey(p) : p \in KnownPriorities(req.priorities)}

\* the sum of term[k] over the keys k of a finite set
RECURSIVE SumOver(_, _)
SumOver(keys, term) ==
    IF keys = {} THEN 0
    ELSE LET k == CHOOSE x \in keys : TRUE
         IN  term[k] + SumOver(keys \ {k}, term)

\* raw of a framework for the last call, in units of 1/10000
RawOf(fw, req) ==
    SumOver(VectorsOf(req), [k \in VectorsOf(req) |-> _dot(CAP[fw], WEIGHTS[k])]) + BASELINE

\* the largest raw of the last call
MxOf(req) ==
    CHOOSE m \in {RawOf(fw, req) : fw \in WithCapability} :
        \A fw \in WithCapability : RawOf(fw, req) <= m

\* the fraction score is clamp(raw / mx, 0, 1), mx # 0
IsClamped(score, raw, mx) ==
    LET n == IF mx < 0 THEN 0 - raw ELSE raw
        d == IF mx < 0 THEN 0 - mx ELSE mx
    IN  /\ score.d > 0
        /\ IF n < 0 THEN score.n = 0
           ELSE IF n > d THEN score.n = score.d
           ELSE score.n * d = n * score.d

\* C16: every score score_frameworks returns is clamp(raw / mx, 0, 1), raw being
\* 0.05 plus the sum, over the vector of the bucket, the vector of each derived
\* flag that is true, the skill vector and the vector of each distinct known
\* priority, of the dot product of the vector with the capabilities of the
\* framework, and mx the largest raw of the frameworks.
ScoreIsClampedRawOverMx ==
    PeerCalled /\ peerOut.raised = "" =>
        \A i \in 1..Len(peerOut.framework_candidates) :
            LET c == peerOut.framework_candidates[i]
            IN  IsClamped(c.score, RawOf(c.framework, peerReq), MxOf(peerReq))

\* a call with derived flags, a repeated and an unknown priority: the first
\* framework scores 1, the last one less
ScoreWitness ==
    /\ PeerCalled /\ peerOut.raised = ""
    /\ peerReq.use_case_text = "Docs for the Crew"
    /\ peerReq.priorities = <<"rag", "bogus", "rag">>
    /\ VectorsOf(peerReq) = {"agent_type:chat_support", "derived:rag_required",
                             "derived:multi_agent", "prio:RAG"}
    /\ peerOut.framework_candidates[1].score.n = peerOut.framework_candidates[1].score.d
    /\ LET last == peerOut.framework_candidates[Len(peerOut.framework_candidates)]
       IN  0 < last.score.n /\ last.score.n < last.score.d

\* the last two calls were made with the same priorities list
SamePriorities == peerKin # NoKin /\ peerKin.req.priorities = peerReq.priorities

\* the skill levels that activate no skill vector, compared as typed
PlainSkill(skill_level) ==
    skill_level \in {None, "", "intermediate", "Intermediate", "guru"}

\* C19: two calls of score_frameworks whose arguments differ only in a skill level
\* that is neither beginner nor expert ('intermediate', None, the empty string, an
\* unrecognized value) return the same list; beginner and expert are the only
\* skill levels that change it.
SkillVectorOnlyForBeginnerOrExpert ==
    /\ SamePriorities
    /\ PlainSkill(peerKin.req.experience_level)
    /\ PlainSkill(peerReq.experience_level)
    => peerKin.out = peerOut

\* None and an unrecognized skill level gave the same list, which is not the list
\* of a beginner
SkillWitness ==
    /\ SamePriorities
    /\ peerKin.req.experience_level = None
    /\ peerReq.experience_level = "guru"
    /\ peerReq.priorities = <<"multi", "speed">>
    /\ peerOut.raised = ""
    /\ peerKin.out = peerOut

\* the last two calls were made with the same skill level
SameSkill == peerKin # NoKin /\ peerKin.req.experience_level = peerReq.experience_level

\* C18: two calls of score_frameworks whose priorities lists hold the same known
\* keys, in any order, with any repetitions and with any unknown keys, return
\* the same list: the same frameworks in the same order with the same scores.
PrioritiesCountAsSet ==
    SameSkill => peerKin.out = peerOut

(***************************************************************************)
(* Properties of the helper functions (SpecLib).                           *)
(***************************************************************************)
\* the text has an occurrence of the word k, in any mix of upper and lower case
Mentions(text, k) ==
    /\ text # None
    /\ \E i \in 1..(Len(text) - Len(k) + 1) : Lower(SubSeq(text, i, i + Len(k) - 1)) = k

MentionsAny(text, words) == \E k \in words : Mentions(text, k)

FlagsReturned == endpoint = "derive_flags"

\* C13: derive_flags returns rag_required exactly when "rag" is a priority or the
\* text mentions a document, knowledge or search word; automation_high exactly
\* when "tools" is a priority or the text mentions a workflow, automation or
\* integration word; multi_agent exactly when "multi" is a priority, the bucket is
\* multi_agent or the text mentions a multi-agent, orchestration or crew word.
FlagsAsDocumented ==
    FlagsReturned =>
        /\ answer.rag_required <=>
              \/ "rag" \in Range(request.priorities)
              \/ MentionsAny(request.use_case_text, RagWords)
        /\ answer.automation_high <=>
              \/ "tools" \in Range(request.priorities)
              \/ MentionsAny(request.use_case_text, AutomationWords)
        /\ answer.multi_agent <=>
              \/ "multi" \in Range(request.priorities)
              \/ request.agent_type_bucket = "multi_agent"
              \/ MentionsAny(request.use_case_text, MultiWords)

\* the call of the example, and a call whose only reason for a flag is a word in
\* capitals
FlagsWitness ==
    /\ FlagsReturned
    /\ \/ /\ request.priorities = <<"rag">>
          /\ request.use_case_text = "document search"
          /\ request.agent_type_bucket = "data_document"
          /\ answer.rag_required /\ ~ answer.automation_high /\ ~ answer.multi_agent
       \/ /\ request.priorities = <<>>
          /\ request.use_case_text = "Orchestrate the CREW"
          /\ request.agent_type_bucket = "workflow"
          /\ answer.multi_agent

EmptyInputs ==
    FlagsReturned /\ request.use_case_text \in {"", None} /\ request.priorities = <<>>

\* C14 as amended: with an empty text and no priorities derive_flags returns
\* rag_required and automation_high false for every bucket, and multi_agent false
\* for every bucket but multi_agent, for which it is true.
EmptyInputsGiveBucketFlagOnly ==
    EmptyInputs =>
        /\ ~ answer.rag_required
        /\ ~ answer.automation_high
        /\ answer.multi_agent <=> request.agent_type_bucket = "multi_agent"

\* the call with an empty text, no priorities and the bucket multi_agent
EmptyInputsWitness ==
    /\ EmptyInputs
    /\ request.use_case_text = ""
    /\ request.agent_type_bucket = "multi_agent"
    /\ answer.multi_agent

\* C14 as stated: with an empty text and no priorities derive_flags returns all
\* three flags false, for every bucket.
EmptyInputsGiveAllFalse ==
    EmptyInputs =>
        ~ answer.rag_required /\ ~ answer.automation_high /\ ~ answer.multi_agent

BucketReturned == endpoint = "map_agent_type_to_bucket"

\* the substrings that stand for a bucket
BucketWords ==
    [b \in Buckets |->
        CASE b = "chat_support" -> {"chatbot", "chat"}
          [] b = "workflow" -> {"workflow"}
          [] b = "multi_agent" -> {"multi"}
          [] b = "research_analysis" -> {"analyse", "analysis"}
          [] b = "data_document" -> {"daten", "data"}]

\* the agent type names the bucket b: it mentions one of its substrings or, for
\* chat_support, is one of them once stripped
Names(agent_type, b) ==
    IF b = "chat_support"
    THEN agent_type # None /\ Lower(Strip(agent_type)) \in BucketWords[b]
    ELSE MentionsAny(agent_type, BucketWords[b])

\* the buckets in the order in which the substring rules are tried
BucketOrder == <<"chat_support", "workflow", "multi_agent", "research_analysis", "data_document">>

\* what the user interface sends as agent_type, and the bucket of each
UiBuckets ==
    [a \in {"Chatbot", "Daten-Agent", "Workflow-Agent", "Analyse-Agent", "Multi-Agent-System",
             "unknown"} |->
        CASE a = "Chatbot" -> "chat_support"
          [] a = "Daten-Agent" -> "data_document"
          [] a = "Workflow-Agent" -> "workflow"
          [] a = "Analyse-Agent" -> "research_analysis"
          [] a = "Multi-Agent-System" -> "multi_agent"
          [] a = "unknown" -> "chat_support"]

\* C17 as amended: map_agent_type_to_bucket maps every agent type, None and the
\* empty string included, to one of the five buckets, whatever the case of its
\* letters: to the first bucket, in the order chat_support (the whole stripped
\* string), workflow, multi_agent, research_analysis, data_document, that it
\* names, and to chat_support when it names none; the values of the user
\* interface map as listed.
BucketIsFirstNamed ==
    BucketReturned =>
        /\ answer \in Buckets
        /\ \A i \in 1..Len(BucketOrder) :
              /\ Names(request.agent_type, BucketOrder[i])
              /\ \A j \in 1..(i - 1) : ~ Names(request.agent_type, BucketOrder[j])
              => answer = BucketOrder[i]
        /\ (\A b \in Buckets : ~ Names(request.agent_type, b)) => answer = "chat_support"
        /\ request.agent_type \in DOMAIN UiBuckets => answer = UiBuckets[request.agent_type]

\* an agent type in capitals that names two buckets went to the earlier one
BucketWitness ==
    /\ BucketReturned
    /\ request.agent_type = "Multi-Agent Workflow"
    /\ Names(request.agent_type, "multi_agent")
    /\ answer = "workflow"

\* C17 as stated: an agent type that contains the substring of a bucket maps to
\* that bucket, and one that contains none maps to chat_support.
BucketIsAnyNamed ==
    BucketReturned =>
        /\ answer \in Buckets
        /\ \A b \in Buckets : MentionsAny(request.agent_type, BucketWords[b]) => answer = b
        /\ (\A b \in Buckets : ~ MentionsAny(request.agent_type, BucketWords[b]))
              => answer = "chat_support"
        /\ request.agent_type \in DOMAIN UiBuckets => answer = UiBuckets[request.agent_type]

RawDimsReturned == endpoint = "_use_case_raw_dims"

\* the metadata without the fields `keys`
Without(meta, keys) == [k \in DOMAIN meta \ keys |-> meta[k]]

\* the metadata field k reads `word`, whatever its case and the blanks around it
Reads(meta, k, word) == k \in DOMAIN meta /\ Lower(Strip(meta[k])) = word

\* the raw scores of the document of the last call had its metadata carried
\* neither an experience level nor a learning preference
Unadjusted ==
    _use_case_raw_dims(request.doc_text,
                       Without(request.meta, {"experience_level", "learning_preference"}))

\* C21: _use_case_raw_dims returns an integer from 1 to 5 for each of D1..D6; D6
\* is one more, 5 at most, than for the same document without an experience
\* level exactly when the experience level is beginner, D1 is one more, 5 at
\* most, than without a learning preference exactly when the learning preference
\* is simple, and the other dimensions are not adjusted.
RawDimsInRangeAndAdjusted ==
    RawDimsReturned =>
        /\ DOMAIN answer = DimSet
        /\ \A d \in DimSet : answer[d] \in 1..5
        /\ answer["D6"] = IF Reads(request.meta, "experience_level", "beginner")
                          THEN Min2(5, Unadjusted["D6"] + 1) ELSE Unadjusted["D6"]
        /\ answer["D1"] = IF Reads(request.meta, "learning_preference", "simple")
                          THEN Min2(5, Unadjusted["D1"] + 1) ELSE Unadjusted["D1"]
        /\ \A d \in DimSet \ {"D1", "D6"} : answer[d] = Unadjusted[d]

\* D6 of a beginner's document was raised from 2 to 3, or D1 of a simple one, or
\* both were capped at 5
RawDimsWitness ==
    /\ RawDimsReturned
    /\ \/ /\ Reads(request.meta, "experience_level", "beginner")
          /\ Unadjusted["D6"] = 2 /\ answer["D6"] = 3
       \/ /\ Reads(request.meta, "learning_preference", "simple")
          /\ Unadjusted["D1"] = 2 /\ answer["D1"] = 3
       \/ /\ Reads(request.meta, "experience_level", "beginner")
          /\ Reads(request.meta, "learning_preference", "simple")
          /\ Unadjusted["D6"] = 5 /\ answer["D6"] = 5 /\ answer["D1"] = 5

AvgReturned == endpoint \in {"_avg_weights", "avg_weights"}

\* the weight of a priority in a dimension, in hundredths: 1.0 for an unknown one
WeightOf(p, d) == IF p \in DOMAIN PriorityWeightsTable THEN PriorityWeightsTable[p][d] ELSE 100

\* the sum of the weights of the first k priorities of a list
RECURSIVE WeightOfFirst(_, _, _)
WeightOfFirst(k, priorities, d) ==
    IF k = 0 THEN 0 ELSE WeightOf(priorities[k], d) + WeightOfFirst(k - 1, priorities, d)

\* C20: _avg_weights and avg_weights return, in each dimension, the arithmetic
\* mean over the list of priorities, repetitions counted, of the weights of the
\* priorities, 1.0 standing for the weight of an unknown priority; 1.0 in every
\* dimension for the empty list; every weight returned is greater than 0.
AvgIsMeanOfWeights ==
    AvgReturned =>
        \A d \in DimSet :
            /\ answer.n > 0
            /\ answer.sum[d] > 0
            /\ IF Len(request.priorities) = 0
               THEN answer.sum[d] = 100 * answer.n
               ELSE answer.sum[d] * Len(request.priorities)
                        = answer.n * WeightOfFirst(Len(request.priorities), request.priorities, d)

\* the mean of a list with a repeated priority, and of one with an unknown one
AvgWitness ==
    /\ AvgReturned
    /\ \/ /\ request.priorities = <<"rag", "rag", "speed">>
          /\ answer.sum["D3"] * 3 = answer.n * 515
       \/ /\ request.priorities = <<"bogus">>
          /\ answer.sum["D1"] = answer.n * 100

(***************************************************************************)
(* Properties of the API (Spec).                                           *)
(***************************************************************************)
AgentDone == endpoint = "/agent" /\ pc = "done"
IsError(obj) == obj.t = "dict" /\ "error" \in DOMAIN obj.v

\* order, score and match_percent of a ranking, item by item
RankOf(items, key) ==
    [i \in 1..Len(items) |->
        [name |-> items[i][key], score |-> items[i].score,
         match_percent |-> items[i].match_percent]]

\* the list k of obj is a list that carries exactly this ranking
Carries(obj, k, key, ranking) ==
    /\ obj.t = "dict" /\ k \in DOMAIN obj.v
    /\ obj.v[k].t = "list"
    /\ Len(obj.v[k].v) = Len(ranking)
    /\ \A i \in 1..Len(ranking) :
          /\ {key, "score", "match_percent"} \subseteq DOMAIN obj.v[k].v[i]
          /\ obj.v[k].v[i][key] = ranking[i].name
          /\ obj.v[k].v[i].score = ranking[i].score
          /\ obj.v[k].v[i].match_percent = ranking[i].match_percent

\* C1: whatever the Decision, Control and Advisor agents return, the
\* recommendations of an answer of /agent carry exactly the order, score and
\* match_percent the deterministic ranking computed.
RankingNeverAltered ==
    AgentDone /\ ~ IsError(answer) =>
        IF WantFrameworks(request, ranked_use_cases)
        THEN /\ Carries(answer, "framework_recommendations", "framework",
                        RankOf(FirstN(ranked_fw, 3), "framework"))
             /\ Carries(answer, "agent_recommendations", "title", <<>>)
        ELSE /\ Carries(answer, "agent_recommendations", "title",
                        RankOf(FirstN(ranked_use_cases, 3), "title"))
             /\ Carries(answer, "framework_recommendations", "framework", <<>>)

Rankings == {ranked_fw, ranked_use_cases}

\* C4 as amended: in every non-empty ranking of the dimension scorer the first
\* item has match_percent 100 when its total is positive, and 0 when it is not.
TopMatchIs100WhenPositive ==
    \A ranking \in Rankings :
        Len(ranking) > 0 =>
            ranking[1].match_percent = IF ranking[1].score_total.n > 0 THEN 100 ELSE 0

\* one request ranked use cases with a positive best total and factsheets whose
\* best total is zero
TopMatchWitness ==
    /\ endpoint = "/agent"
    /\ Len(ranked_use_cases) > 0 /\ ranked_use_cases[1].score_total.n > 0
    /\ ranked_use_cases[1].match_percent = 100
    /\ Len(ranked_fw) > 1 /\ ranked_fw[1].score_total.n = 0
    /\ ranked_fw[1].match_percent = 0

\* C4 as stated: in every non-empty ranking of the dimension scorer the first item
\* has match_percent exactly 100.
TopMatchIs100 ==
    \A ranking \in Rankings : Len(ranking) > 0 => ranking[1].match_percent = 100

\* the default payload of the error path
IsDefaultPayload(obj) ==
    /\ obj.t = "dict"
    /\ DOMAIN obj.v = {"mode", "agent_recommendations", "framework_recommendations", "error"}
    /\ obj.v["mode"] = JStr("frameworks")
    /\ obj.v["agent_recommendations"] = JList(<<>>)
    /\ obj.v["framework_recommendations"] = JList(<<>>)
    /\ obj.v["error"].t = "str"

\* C8: when a document-store call or an LLM call of /agent raised, the answer is
\* the default payload with its error field.
FailureGivesDefaultPayload ==
    AgentDone /\ failed # <<>> => IsDefaultPayload(answer)

\* C9: every answer of /agent is an object whose mode is "agents" or "frameworks"
\* and whose agent_recommendations and framework_recommendations are lists.
AnswerHasFinalShape ==
    AgentDone =>
        /\ answer.t = "dict"
        /\ {"mode", "agent_recommendations", "framework_recommendations"} \subseteq DOMAIN answer.v
        /\ answer.v["mode"] \in {JStr("agents"), JStr("frameworks")}
        /\ answer.v["agent_recommendations"].t = "list"
        /\ answer.v["framework_recommendations"].t = "list"

\* the scoring passes of the request: one factsheet load and ranking each
ScoringPasses == Cardinality({i \in 1..Len(calls) : calls[i] = "factsheet_get"})

\* the ranking had no candidates: the load raised or gave no factsheet
NoCandidates ==
    \/ "factsheet_get" \in Range(failed)
    \/ _load_framework_factsheets_from_chroma(framework_collection.metas) = <<>>

Scored == endpoint = "/agent" /\ "factsheet_get" \in Range(calls)

\* without candidates the full ranking and the top three are empty, and the
\* scoring step did not end the request with an exception
EmptyRankingReturned ==
    Scored /\ NoCandidates =>
        /\ ranked_fw = <<>>
        /\ FirstN(ranked_fw, 3) = <<>>
        /\ final_obj # JNull => Get(final_obj, "framework_recommendations") = JList(<<>>)
        /\ ~ (pc = "done" /\ IsError(answer) /\ calls[Len(calls)] = "factsheet_get")

\* C10: the candidates of a request are scored at most twice; the handling of a
\* request ends, since it makes at most ten external calls and each of its steps
\* makes at least one; and without candidates the top three and the full ranking
\* are empty and nothing is raised.
ScoringBoundedAndEnds ==
    /\ [](endpoint = "/agent" =>
            /\ ScoringPasses <= 2
            /\ Len(calls) <= 10
            /\ EmptyRankingReturned)
    /\ [][endpoint = "/agent" /\ pc # "done" =>
            endpoint' = "/agent" /\ Len(calls') > Len(calls)]_vars

\* a request whose factsheet load raised was answered in the frameworks mode,
\* without an error
EmptyRankingWitness ==
    /\ AgentDone
    /\ "factsheet_get" \in Range(failed)
    /\ ranked_fw = <<>>
    /\ "DecisionAgent" \in Range(calls)
    /\ ~ IsError(answer)

\* the step at which the request in progress stopped with the error payload
StoppedAt == IF Len(calls) = 0 THEN "" ELSE calls[Len(calls)]

\* C15: a reply that holds no parsable JSON is read as the empty object by
\* _extract_json, which never raises, and run_agent goes on: the requirements
\* and the profile are {} after such a reply, and a request that ends with the
\* error payload without an external call having raised did not stop at a step
\* whose reply held no parsable JSON.
MalformedReplyIsEmptyObject ==
    endpoint = "/agent" =>
        /\ pc = "ProfilerAgent" /\ "RequirementsAgent" \in Range(malformed)
              => requirements = EmptyDict
        /\ pc = "usecase_query" /\ "ProfilerAgent" \in Range(malformed)
              => profiler = EmptyDict
        /\ pc = "done" /\ IsError(answer) /\ failed = <<>>
              => StoppedAt \notin Range(malformed)
        /\ pc = "done" /\ StoppedAt = "AdvisorAgent" /\ "AdvisorAgent" \in Range(malformed)
              => ~ IsError(answer)

\* a request whose five LLM steps were all answered without parsable JSON ended
\* without the error payload
MalformedWitness ==
    /\ AgentDone
    /\ malformed = <<"RequirementsAgent", "ProfilerAgent", "DecisionAgent", "ControlAgent",
                     "AdvisorAgent">>
    /\ failed = <<>>
    /\ ~ IsError(answer)

\* the scoring and the snippet queries of the request are over and the
\* DecisionAgent is called next
Fetched == endpoint = "/agent" /\ pc = "DecisionAgent"

\* the best match percent is at least 60 and a candidate has supporting text
Sufficient ==
    /\ Len(ranked_fw) > 0 /\ ranked_fw[1].match_percent >= 60
    /\ \E i \in 1..Len(frameworks_for_llm) : frameworks_for_llm[i].snippets # <<>>

\* C11: the scoring of a request stops after its first attempt exactly when the
\* best match percent is at least 60 and a candidate has supporting text;
\* otherwise a second attempt is made before the result is used.
RetriesOnceUnlessSufficient ==
    Fetched =>
        /\ ScoringPasses \in {1, 2}
        /\ ScoringPasses = 1 <=> Sufficient

\* no use case was ranked, or the best use case scores less than 0.35
Weak(ranked) == ranked = <<>> \/ 100 * ranked[1].score.n < 35 * ranked[1].score.d

\* run_agent has built the object it hands to the ControlAgent
Built == endpoint = "/agent" /\ final_obj # JNull

IsPrefix(a, b) == Len(a) <= Len(b) /\ a = SubSeq(b, 1, Len(a))

\* the request in progress is in the frameworks mode, as far as it is decided
FrameworksMode ==
    \/ request.force_frameworks
    \/ ranked_use_cases = <<>>
    \/ 100 * ranked_use_cases[1].score.n < 35 * ranked_use_cases[1].score.d

\* the external calls of a whole /agent request, in their order
CallOrder ==
    <<"RequirementsAgent", "ProfilerAgent", "usecase_query", "factsheet_get">>
    \o (IF FrameworksMode
        THEN Repeat("snippet_query", Min2(3, Len(ranked_fw))) \o <<"DecisionAgent">>
        ELSE <<>>)
    \o <<"ControlAgent", "AdvisorAgent">>

\* C24: the external calls of an /agent request are made one after another in the
\* order RequirementsAgent, ProfilerAgent, use-case retrieval, factsheet load, in
\* the frameworks mode one snippet query for each of the top three frameworks
\* and then the DecisionAgent, ControlAgent, AdvisorAgent: at every moment the
\* calls made so far are a beginning of that list, a step of the request only
\* adds calls to them, and the DecisionAgent is not called in the agents mode.
CallsInOrder ==
    /\ [](endpoint = "/agent" =>
            /\ IsPrefix(calls, CallOrder)
            /\ "DecisionAgent" \in Range(calls) => FrameworksMode
            /\ pc = "done" /\ ~ IsError(answer) => calls = CallOrder)
    /\ [][endpoint = "/agent" /\ endpoint' = "/agent" =>
                Len(calls') > Len(calls) /\ IsPrefix(calls, calls')]_vars

\* a request ended after the six calls of the agents mode, or after the nine
\* calls of the frameworks mode made for two frameworks
CallsWitness ==
    /\ AgentDone /\ ~ IsError(answer)
    /\ \/ calls = <<"RequirementsAgent", "ProfilerAgent", "usecase_query", "factsheet_get",
                    "ControlAgent", "AdvisorAgent">>
       \/ calls = <<"RequirementsAgent", "ProfilerAgent", "usecase_query", "factsheet_get",
                    "snippet_query", "snippet_query", "DecisionAgent", "ControlAgent",
                    "AdvisorAgent">>

\* the use cases of the request were retrieved and ranked
UseCasesRanked ==
    /\ endpoint \in {"/agent", "/use-cases"}
    /\ "usecase_query" \in Range(calls) \ Range(failed)

\* the candidates the retrieval returned
Retrieved == FirstN(usecase_collection, RETRIEVAL_N)

\* total of the candidate j for the request, over the denominator TotalDen: the
\* sum over D1..D6 of raw * weight * agent multiplier * skill multiplier
TotalOf(j) ==
    LET raw == RawDims(Retrieved[j].document, Retrieved[j].metadata)
        w == _avg_weights(request.priorities)
        a == _get_agent_mult(OrDefault(request.agent_type, "unknown"))
        m == _get_skill_mult(request.experience_level)
    IN  SumOver(DimSet, [d \in DimSet |-> raw[d] * w.sum[d] * a[d] * m[d]])

TotalDen == 10000 * _avg_weights(request.priorities).n

\* the highest total of the candidates
BestTotal ==
    CHOOSE b \in {TotalOf(j) : j \in 1..Len(Retrieved)} :
        \A j \in 1..Len(Retrieved) : TotalOf(j) <= b

\* C22: _rank_bosch_use_cases_matrix returns min(top_k, number of candidates)
\* items; the i-th item is a candidate and carries the i-th highest total of the
\* candidates, so the totals do not increase along the list; its match_percent
\* is round(100 * total / best) kept within 0..100, best being the highest total
\* of all the candidates, and its score is match_percent / 100.
UseCasesAreTopKByTotal ==
    UseCasesRanked =>
        /\ Len(ranked_use_cases) = Min2(TOP_K, Len(Retrieved))
        /\ \A i \in 1..Len(ranked_use_cases) :
              LET item == ranked_use_cases[i]
                  t == item.score_total.n
              IN  /\ item.score_total.d = TotalDen
                  /\ \E j \in 1..Len(Retrieved) :
                        /\ item.summary = Retrieved[j].document
                        /\ item.metadata = Retrieved[j].metadata
                        /\ t = TotalOf(j)
                  /\ Cardinality({j \in 1..Len(Retrieved) : TotalOf(j) > t}) <= i - 1
                  /\ Cardinality({j \in 1..Len(Retrieved) : TotalOf(j) >= t}) >= i
                  /\ i > 1 => t <= ranked_use_cases[i - 1].score_total.n
                  /\ item.match_percent
                        = Max2(0, Min2(100, RoundHalfEven(100 * t, BestTotal)))
                  /\ item.score = [n |-> item.match_percent, d |-> 100]

\* four candidates were retrieved and three returned, the last with a lower
\* total and a lower match_percent than the first
UseCasesWitness ==
    /\ UseCasesRanked
    /\ Len(Retrieved) = 4 /\ Len(ranked_use_cases) = 3
    /\ ranked_use_cases[3].score_total.n < ranked_use_cases[1].score_total.n
    /\ ranked_use_cases[1].match_percent = 100
    /\ ranked_use_cases[3].match_percent \in 1..99
    /\ \E j \in 1..Len(Retrieved) : TotalOf(j) < ranked_use_cases[3].score_total.n

\* C26: when the retrieval returns at least one candidate the first ranked use
\* case has score 1.0, so the best score is never below 0.35: /use-cases then
\* answers best_score 1.0 and suggest_show_frameworks false, and an /agent
\* request that does not force the frameworks takes the agents mode exactly when
\* the retrieval returned at least one use case.
FirstUseCaseScoresOne ==
    /\ UseCasesRanked /\ Len(Retrieved) > 0 =>
          /\ Len(ranked_use_cases) > 0
          /\ ranked_use_cases[1].score.n = ranked_use_cases[1].score.d
          /\ ranked_use_cases[1].match_percent = 100
    /\ UseCasesRanked /\ Len(ranked_use_cases) > 0 =>
          100 * ranked_use_cases[1].score.n >= 35 * ranked_use_cases[1].score.d
    /\ endpoint = "/use-cases" /\ pc = "done" /\ answer.status = 200 =>
          /\ answer.suggest_show_frameworks = (Len(Retrieved) = 0)
          /\ Len(Retrieved) > 0 => answer.best_score.n = answer.best_score.d
    /\ endpoint = "/agent" /\ final_obj # JNull /\ ~ request.force_frameworks =>
          (Get(final_obj, "mode") = JStr("agents") <=> Len(Retrieved) > 0)

\* an /agent request that did not force the frameworks took the agents mode over
\* four candidates, the best of which scores 1.0
FirstUseCaseWitness ==
    /\ endpoint = "/agent" /\ final_obj # JNull /\ ~ request.force_frameworks
    /\ Len(Retrieved) = 4
    /\ ranked_use_cases[1].score = [n |-> 100, d |-> 100]
    /\ Get(final_obj, "mode") = JStr("agents")

\* the items of the list k of the object run_agent built
Recs(k) == final_obj.v[k].v

\* the names of the first three items of a ranking, under the key `key`
FirstNames(ranking, key) == [i \in 1..Min2(3, Len(ranking)) |-> ranking[i][key]]

\* C27: the object run_agent hands to the ControlAgent never has both lists of
\* recommendations filled: in the mode agents framework_recommendations is empty
\* and agent_recommendations holds at most three items, in the mode frameworks
\* agent_recommendations is empty and framework_recommendations holds at most
\* three items; the items are the first ones of the ranking, in its order.
OneListOfAtMostThree ==
    Built =>
        /\ final_obj.t = "dict"
        /\ final_obj.v["agent_recommendations"].t = "list"
        /\ final_obj.v["framework_recommendations"].t = "list"
        /\ Recs("agent_recommendations") = <<>> \/ Recs("framework_recommendations") = <<>>
        /\ final_obj.v["mode"] \in {JStr("agents"), JStr("frameworks")}
        /\ final_obj.v["mode"] = JStr("agents") =>
              /\ Recs("framework_recommendations") = <<>>
              /\ Len(Recs("agent_recommendations")) <= 3
              /\ [i \in 1..Len(Recs("agent_recommendations")) |->
                        Recs("agent_recommendations")[i].title]
                    = FirstNames(ranked_use_cases, "title")
        /\ final_obj.v["mode"] = JStr("frameworks") =>
              /\ Recs("agent_recommendations") = <<>>
              /\ Len(Recs("framework_recommendations")) <= 3
              /\ [i \in 1..Len(Recs("framework_recommendations")) |->
                        Recs("framework_recommendations")[i].framework]
                    = FirstNames(ranked_fw, "framework")

\* the ControlAgent is handed the first three of more ranked frameworks, in the
\* order of the ranking, after the DecisionAgent wrote its texts in another order
OneListWitness ==
    /\ Built /\ pc = "ControlAgent"
    /\ final_obj.v["mode"] = JStr("frameworks")
    /\ Len(ranked_fw) > 3
    /\ Len(Recs("framework_recommendations")) = 3
    /\ Recs("framework_recommendations")[2].framework = ranked_fw[2].framework
    /\ Recs("framework_recommendations")[2].description = "second description"
    /\ Recs("agent_recommendations") = <<>>

(***************************************************************************)
(* Properties over any table contents (SpecAnyTables).                     *)
(***************************************************************************)
InPercent(m) == m \in 0..100

\* C5: whatever the tables hold, every item score_frameworks, run_scoring,
\* _rank_all_frameworks and _rank_bosch_use_cases_matrix return has its score in
\* [0,1] and its match_percent in [0,100].
ScoresAndPercentsClamped ==
    /\ PeerReturned =>
          /\ \A i \in 1..Len(PeerList) : InUnit(PeerList[i].score)
          /\ \A i \in 1..Len(peerOut.framework_recommendations) :
                /\ InUnit(peerOut.framework_recommendations[i].score)
                /\ InPercent(peerOut.framework_recommendations[i].match_percent)
    /\ \A ranking \in Rankings :
          \A i \in 1..Len(ranking) :
              /\ InUnit(ranking[i].score)
              /\ InPercent(ranking[i].match_percent)

\* a call of the peer scorer in which a framework's raw score is negative while the
\* largest one is positive: the clamp made its score 0
ClampedWitness ==
    /\ PeerReturned
    /\ Len(PeerRaws) > 0
    /\ MaxRaw(PeerRaws) > 0
    /\ \E i \in 1..Len(PeerRaws) :
          /\ PeerRaws[i].raw < 0
          /\ \E j \in 1..Len(PeerList) : /\ PeerList[j].framework = PeerRaws[i].framework
                                         /\ PeerList[j].score.n = 0

\* C6: no ranking function divides by zero: when the largest raw score of the
\* batch is zero, or the batch is empty, the denominator is 1.0.
NoDivisionByZero == peerOut.raised # "ZeroDivisionError"

\* C23: /use-cases answers suggest_show_frameworks = true exactly when it ranked
\* no use case or the best one scores less than 0.35; /agent takes the frameworks
\* mode exactly when force_frameworks is set or the same condition holds of its
\* own ranking, and the agents mode otherwise.
ModeFollowsSuggestion ==
    /\ endpoint = "/use-cases" /\ pc = "done" /\ answer.status = 200
          => answer.suggest_show_frameworks = Weak(answer.use_cases)
    /\ Built
          => Get(final_obj, "mode")
                = IF request.force_frameworks \/ Weak(ranked_use_cases)
                  THEN JStr("frameworks") ELSE JStr("agents")
    /\ endpoint = "/agent" /\ pc \in {"snippet_query", "DecisionAgent"}
          => request.force_frameworks \/ Weak(ranked_use_cases)

\* a request that did not force the frameworks took the frameworks mode because
\* its best use case scored less than 0.35
ModeWitness ==
    /\ Built
    /\ ~ request.force_frameworks
    /\ Len(ranked_use_cases) > 0
    /\ 100 * ranked_use_cases[1].score.n < 35 * ranked_use_cases[1].score.d
    /\ Get(final_obj, "mode") = JStr("frameworks")

(***************************************************************************)
(* The two framework rankers: services/scoring.py and api.py.              *)
(***************************************************************************)
\* rank_all_frameworks was called and its call is over
LibraryRanked == endpoint = "rank_all_frameworks" /\ pc = "done"

\* what _rank_all_frameworks of api.py returns for the request over the store,
\* `raised` telling whether framework_collection.get raised
ApiRanking(raised) ==
    _rank_all_frameworks(request,
        IF raised THEN <<>>
        ELSE _load_framework_factsheets_from_chroma(framework_collection.metas))

\* rank_all_frameworks returned the list that _rank_all_frameworks returns for
\* the same request over the same factsheets
SameRankingWhenLoaded == LibraryRanked /\ failed = <<>> => ranked_fw = ApiRanking(FALSE)

\* C28: for the same factsheet collection and the same request,
\* rank_all_frameworks of services/scoring.py returns the list that
\* _rank_all_frameworks of api.py returns, also when the collection is empty
\* and when the store call fails: every call of rank_all_frameworks returns
\* (no exception reaches its caller), and returns that list.
SameRankingFromBothRankers ==
    LibraryRanked =>
        /\ failed = <<>>
        /\ ranked_fw = ApiRanking(FALSE)

\* both rankers ranked four factsheets alike
SameRankingWitness ==
    /\ LibraryRanked /\ failed = <<>>
    /\ Len(ranked_fw) > 3
    /\ ranked_fw = ApiRanking(FALSE)

\* the factsheets were loaded from the store and ranked for the request
FactsheetsRanked ==
    \/ LibraryRanked /\ failed = <<>>
    \/ /\ endpoint = "/agent"
       /\ "factsheet_get" \in Range(calls)
       /\ "factsheet_get" \notin Range(failed)

\* the name a stored factsheet goes by: str(meta.get("framework") or "").strip()
StoredName(meta) == Strip(IF meta.framework = None THEN "" ELSE meta.framework)

\* the last factsheet of the store that goes by the name
LastStored(name) ==
    LET metas == framework_collection.metas
        last == CHOOSE i \in 1..Len(metas) :
                    /\ StoredName(metas[i]) = name
                    /\ \A j \in (i + 1)..Len(metas) : StoredName(metas[j]) # name
    IN  metas[last]

\* C29: the framework ranking holds each framework name at most once; the
\* ranked names are the non-empty (stripped) names of the stored factsheets,
\* factsheets without a name being skipped, and each ranked framework carries
\* the dimensions and the url of the last stored factsheet of its name.
EachFrameworkOnceLastWins ==
    /\ \A i, j \in 1..Len(ranked_fw) :
            ranked_fw[i].framework = ranked_fw[j].framework => i = j
    /\ FactsheetsRanked =>
            /\ {ranked_fw[i].framework : i \in 1..Len(ranked_fw)}
                  = {StoredName(m) : m \in Range(framework_collection.metas)} \ {""}
            /\ \A i \in 1..Len(ranked_fw) :
                  LET last == LastStored(ranked_fw[i].framework)
                  IN  /\ ranked_fw[i].url = last.url
                      /\ \A d \in DimSet :
                            ranked_fw[i].dims[d]
                               = IF d \in DOMAIN last.dims THEN last.dims[d] ELSE 3

\* five factsheets, two of them without a name and two going by one name with
\* different dimensions, were ranked as two frameworks
EachFrameworkOnceWitness ==
    /\ FactsheetsRanked
    /\ Len(framework_collection.metas) = 5
    /\ Len(ranked_fw) = 2
    /\ \E i, j \in 1..5 :
          /\ i < j
          /\ StoredName(framework_collection.metas[i]) = StoredName(framework_collection.metas[j])
          /\ StoredName(framework_collection.metas[i]) # ""
          /\ framework_collection.metas[i].dims # framework_collection.metas[j].dims
    /\ \E m \in Range(framework_collection.metas) : StoredName(m) = ""

(***************************************************************************)
(* Properties of the UI's template flow (SpecTemplate).                    *)
(***************************************************************************)
\* this run of the script ended with a failed backend call
BackendFailed(message) == message \notin {"", FillAllFields}

\* C30: in the template flow phase is always one of form, usecases, frameworks;
\* while phase is "usecases" the stored use cases are a non-empty list, the one
\* of the session's last /use-cases response, and that response had
\* suggest_show_frameworks false; a step taken in phase "frameworks" leaves the
\* phase at "frameworks"; and a run in which a backend call failed leaves phase,
\* usecases and frameworks as they were.
PhaseFlow ==
    /\ [](/\ phase \in {"form", "usecases", "frameworks"}
          /\ phase = "usecases" =>
                /\ usecases.t = "list" /\ Len(usecases.v) > 0
                /\ use_cases_data.t = "dict"
                /\ {"use_cases", "suggest_show_frameworks"} \subseteq DOMAIN use_cases_data.v
                /\ use_cases_data.v["use_cases"] = usecases
                /\ use_cases_data.v["suggest_show_frameworks"].t = "bool"
                /\ use_cases_data.v["suggest_show_frameworks"].v = FALSE)
    /\ [][phase = "frameworks" => phase' = "frameworks"]_vars
    /\ [][BackendFailed(error_shown')
            => phase' = phase /\ usecases' = usecases /\ frameworks' = frameworks]_vars

\* the use cases that api.py ranked for the form are shown, and the click on
\* "Frameworks anzeigen" ended with a timeout of the backend
PhaseWitness ==
    /\ phase = "usecases"
    /\ error_shown = "Read timed out."
    /\ Len(usecases.v) > 1
    /\ last_payload.priorities # <<>>
    /\ frameworks = JList(<<>>)

(***************************************************************************)
(* Properties of the server and the scoring agent together (SpecServer).   *)
(***************************************************************************)
TablesAsShipped ==
    /\ CAP = CapTable
    /\ WEIGHTS = WeightsTable
    /\ PRIORITY_WEIGHTS_BY_KEY = PriorityWeightsTable
    /\ AGENT_TYPE_MULTIPLIERS = AgentTypeMultipliersTable
    /\ SKILL_MULTIPLIERS = SkillMultipliersTable

\* the use-case ranking of the request, had it been the first of the process
RankedAlone ==
    RankUseCases(_retrieve_bosch_use_cases(Retrieved),
                 avg_weights(request.priorities),
                 get_agent_mult(OrDefault(request.agent_type, "unknown")),
                 get_skill_mult(request.experience_level),
                 TOP_K)

\* C25: no operation modifies CAP, WEIGHTS, PRIORITY_WEIGHTS_BY_KEY,
\* AGENT_TYPE_MULTIPLIERS or SKILL_MULTIPLIERS: whatever requests and scoring
\* calls were made before, in whatever order, the tables hold their initial
\* values, no step changes them, and the use cases of a request are ranked as
\* they would have been had the request been the only one.
TablesNeverModified ==
    /\ [](/\ TablesAsShipped
          /\ UseCasesRanked => ranked_use_cases = RankedAlone)
    /\ [][/\ CAP' = CAP
          /\ WEIGHTS' = WEIGHTS
          /\ PRIORITY_WEIGHTS_BY_KEY' = PRIORITY_WEIGHTS_BY_KEY
          /\ AGENT_TYPE_MULTIPLIERS' = AGENT_TYPE_MULTIPLIERS
          /\ SKILL_MULTIPLIERS' = SKILL_MULTIPLIERS]_vars

\* an /agent request came to its end with the tables as shipped, its use cases
\* ranked with averaged priority weights
TablesWitness ==
    /\ TablesAsShipped
    /\ AgentDone /\ UseCasesRanked
    /\ Len(request.priorities) > 1
    /\ Len(ranked_use_cases) > 1
    /\ ranked_use_cases = RankedAlone

====
